---- MODULE Spec2Model ----
(***************************************************************************)
(* TF-NLP-Agent: the requirement extraction engine (internal/nlp) and the  *)
(* security scanner (package security) as state machines.  Texts are TLA+  *)
(* strings; strings.Contains, TrimSpace, ToLower and the regular           *)
(* expressions are computed character by character.  A Go `range` over a   *)
(* map visits the keys in an unspecified order: every call draws the       *)
(* order afresh.  scanner is the Scanner the calls share, document the     *)
(* Terraform text they scan, threads the callers that run at the same time.*)
(***************************************************************************)
EXTENDS Integers, Sequences, FiniteSets, TLC

VARIABLES engine, input, calls, scanner, document, threads

vars == <<engine, input, calls, scanner, document, threads>>

(***************************************************************************)
(* Bounds of the model.                                                    *)
(***************************************************************************)
\* a caller's text is the concatenation of at most MaxWords phrases
MaxWords == 2

\* a Terraform document has at most MaxLines lines
MaxLines == 2

\* the number of callers that run at the same time
MaxThreads == 2

(***************************************************************************)
(* Strings.                                                                *)
(***************************************************************************)
CharAt(s, i) == SubSeq(s, i, i)

\* strings.Contains(s, substr)
Contains(s, substr) ==
    \E i \in 1..(Len(s) - Len(substr) + 1) : SubSeq(s, i, i + Len(substr) - 1) = substr

\* strings.HasPrefix(s[i:], word), i counted from 1
HasPrefixAt(s, i, word) ==
    /\ i + Len(word) - 1 <= Len(s)
    /\ SubSeq(s, i, i + Len(word) - 1) = word

\* unicode.IsSpace on the characters a text of the model can hold
IsSpace(c) == c \in {" ", "\t", "\n", "\r", "\f"}

\* \d of the regular expressions
IsDigit(c) == c \in {"0", "1", "2", "3", "4", "5", "6", "7", "8", "9"}

\* unicode.ToLower of one character
LowerChar(c) ==
    CASE c = "A" -> "a" [] c = "B" -> "b" [] c = "C" -> "c" [] c = "D" -> "d"
      [] c = "E" -> "e" [] c = "F" -> "f" [] c = "G" -> "g" [] c = "H" -> "h"
      [] c = "I" -> "i" [] c = "J" -> "j" [] c = "K" -> "k" [] c = "L" -> "l"
      [] c = "M" -> "m" [] c = "N" -> "n" [] c = "O" -> "o" [] c = "P" -> "p"
      [] c = "Q" -> "q" [] c = "R" -> "r" [] c = "S" -> "s" [] c = "T" -> "t"
      [] c = "U" -> "u" [] c = "V" -> "v" [] c = "W" -> "w" [] c = "X" -> "x"
      [] c = "Y" -> "y" [] c = "Z" -> "z" [] OTHER -> c

RECURSIVE ToLower(_)
\* strings.ToLower
ToLower(s) ==
    IF s = "" THEN "" ELSE LowerChar(CharAt(s, 1)) \o ToLower(SubSeq(s, 2, Len(s)))

RECURSIVE TrimLeft(_)
TrimLeft(s) ==
    IF s # "" /\ IsSpace(CharAt(s, 1)) THEN TrimLeft(SubSeq(s, 2, Len(s))) ELSE s

RECURSIVE TrimRight(_)
TrimRight(s) ==
    IF s # "" /\ IsSpace(CharAt(s, Len(s))) THEN TrimRight(SubSeq(s, 1, Len(s) - 1)) ELSE s

\* TrimSpace that leaves trailing white space
TrimSpaceLeftOnly(s) == TrimLeft(s)

\* strings.TrimSpace
TrimSpace(s) == TrimRight(TrimLeft(s))

(***************************************************************************)
(* Go maps.  A map is a function from its keys.  `for k, v := range m`     *)
(* visits every key once, in an order the language leaves unspecified and  *)
(* that may differ from one loop to the next: a loop over a map is         *)
(* modelled by the set of results it can produce, the next key being any   *)
(* key not visited yet.                                                    *)
(***************************************************************************)

(***************************************************************************)
(* The engine: NewEngine and the functions of parser.go.                   *)
(***************************************************************************)
NewEngine ==
    [cloudProviders |->
        [aws   |-> <<"aws", "amazon", "ec2", "s3", "rds", "vpc", "lambda">>,
         azure |-> <<"azure", "microsoft", "vm", "storage", "sql">>,
         gcp   |-> <<"gcp", "google", "compute", "storage", "cloud">>],
     resourceTypes |->
        [compute    |-> <<"vm", "instance", "server", "compute", "ec2">>,
         storage    |-> <<"storage", "bucket", "s3", "blob", "disk">>,
         network    |-> <<"vpc", "network", "subnet", "security group", "firewall",
                          "load balancer", "alb", "nlb">>,
         database   |-> <<"database", "db", "rds", "sql", "mysql", "postgres", "mongodb">>,
         container  |-> <<"container", "kubernetes", "k8s", "docker", "ecs", "aks", "gke">>,
         serverless |-> <<"lambda", "function", "serverless", "azure functions",
                          "cloud functions">>]]

\* the inner loop `for _, keyword := range keywords { if strings.Contains(...) }`
ContainsAny(text, keywords) ==
    \E i \in 1..Len(keywords) : Contains(text, keywords[i])

RECURSIVE rangeCloudProvidersDefaultAzure(_, _, _)
\* rangeCloudProviders with another fallback after the loop
rangeCloudProvidersDefaultAzure(e, text, keys) ==
    IF keys = {} THEN {"azure"}
    ELSE UNION {IF ContainsAny(text, e.cloudProviders[provider])
                THEN {provider}
                ELSE rangeCloudProvidersDefaultAzure(e, text, keys \ {provider}) :
                provider \in keys}

RECURSIVE rangeCloudProviders(_, _, _)
\* the loops of detectCloudProvider, keys being the keys of e.cloudProviders not
\* visited yet: the first provider visited that has a keyword in the text is
\* returned, "aws" when the loop ends
rangeCloudProviders(e, text, keys) ==
    IF keys = {} THEN {"aws"}
    ELSE UNION {IF ContainsAny(text, e.cloudProviders[provider])
                THEN {provider}
                ELSE rangeCloudProviders(e, text, keys \ {provider}) : provider \in keys}

\* detectCloudProvider: the values the call can return
detectCloudProvider(e, text) ==
    rangeCloudProviders(e, text, DOMAIN e.cloudProviders)

\* generateResourceName with the default branch alone
generateResourceNameFromType(resourceType) == "main_" \o resourceType

generateResourceName(resourceType) ==
    CASE resourceType = "compute" -> "main_instance"
      [] resourceType = "storage" -> "main_storage"
      [] resourceType = "network" -> "main_network"
      [] resourceType = "database" -> "main_database"
      [] resourceType = "container" -> "main_cluster"
      [] resourceType = "serverless" -> "main_function"
      [] OTHER -> "main_" \o resourceType

\* extractAttributes whose second test of a category is an else-if
extractAttributesFirstOnly(text, resourceType) ==
    CASE resourceType = "compute" ->
            IF Contains(text, "linux") \/ Contains(text, "ubuntu") \/ Contains(text, "centos")
            THEN <<"os:linux">>
            ELSE IF Contains(text, "windows") THEN <<"os:windows">> ELSE <<>>
      [] resourceType = "network" ->
            IF Contains(text, "public") THEN <<"access:public">>
            ELSE IF Contains(text, "private") THEN <<"access:private">> ELSE <<>>
      [] resourceType = "database" ->
            IF Contains(text, "mysql") THEN <<"engine:mysql">>
            ELSE IF Contains(text, "postgres") THEN <<"engine:postgresql">> ELSE <<>>
      [] OTHER -> <<>>

extractAttributes(text, resourceType) ==
    CASE resourceType = "compute" ->
            (IF Contains(text, "linux") \/ Contains(text, "ubuntu") \/ Contains(text, "centos")
             THEN <<"os:linux">> ELSE <<>>)
            \o (IF Contains(text, "windows") THEN <<"os:windows">> ELSE <<>>)
      [] resourceType = "network" ->
            (IF Contains(text, "public") THEN <<"access:public">> ELSE <<>>)
            \o (IF Contains(text, "private") THEN <<"access:private">> ELSE <<>>)
      [] resourceType = "database" ->
            (IF Contains(text, "mysql") THEN <<"engine:mysql">> ELSE <<>>)
            \o (IF Contains(text, "postgres") THEN <<"engine:postgresql">> ELSE <<>>)
      [] OTHER -> <<>>

RECURSIVE rangeKeywordsNoBreak(_, _, _)
\* rangeKeywords without the break: every keyword found appends a Resource
rangeKeywordsNoBreak(text, resourceType, keywords) ==
    IF keywords = <<>> THEN <<>>
    ELSE (IF Contains(text, Head(keywords))
          THEN <<[Type       |-> resourceType,
                  Name       |-> generateResourceName(resourceType),
                  Properties |-> <<>>,
                  Attributes |-> extractAttributes(text, resourceType)]>>
          ELSE <<>>)
         \o rangeKeywordsNoBreak(text, resourceType, Tail(keywords))

RECURSIVE rangeKeywords(_, _, _)
\* the inner loop of extractResources for one key: what it appends to resources.
\* The first keyword found appends the Resource and breaks out of the loop.
rangeKeywords(text, resourceType, keywords) ==
    IF keywords = <<>> THEN <<>>
    ELSE IF Contains(text, Head(keywords))
         THEN <<[Type       |-> resourceType,
                 Name       |-> generateResourceName(resourceType),
                 Properties |-> <<>>,
                 Attributes |-> extractAttributes(text, resourceType)]>>
         ELSE rangeKeywords(text, resourceType, Tail(keywords))

RECURSIVE rangeResourceTypes(_, _)
\* the outer loop of extractResources, keys being the keys of e.resourceTypes
\* not visited yet; appended holds, for every key, the pair
\* <<key, what its inner loop appends>>
rangeResourceTypes(appended, keys) ==
    IF keys = {} THEN {<<>>}
    ELSE UNION {{(CHOOSE p \in appended : p[1] = resourceType)[2] \o rest :
                    rest \in rangeResourceTypes(appended, keys \ {resourceType})} :
                resourceType \in keys}

\* extractResources: the values the call can return
extractResources(e, text) ==
    LET appended == {<<k, rangeKeywords(text, k, e.resourceTypes[k])>> :
                        k \in DOMAIN e.resourceTypes}
    IN rangeResourceTypes(appended, DOMAIN e.resourceTypes)

\* determineIntent with "delete" as the fallback
determineIntentDefaultDelete(text) ==
    IF ContainsAny(text, <<"create", "setup", "build", "deploy", "provision">>) THEN "create"
    ELSE IF ContainsAny(text, <<"update", "modify", "change", "scale", "resize">>) THEN "modify"
    ELSE "delete"

\* determineIntent with the delete words looked for first
determineIntentDeleteFirst(text) ==
    IF ContainsAny(text, <<"delete", "remove", "destroy", "terminate">>) THEN "delete"
    ELSE IF ContainsAny(text, <<"create", "setup", "build", "deploy", "provision">>) THEN "create"
    ELSE IF ContainsAny(text, <<"update", "modify", "change", "scale", "resize">>) THEN "modify"
    ELSE "create"

determineIntent(text) ==
    LET createWords == <<"create", "setup", "build", "deploy", "provision">>
        modifyWords == <<"update", "modify", "change", "scale", "resize">>
        deleteWords == <<"delete", "remove", "destroy", "terminate">>
    IN IF ContainsAny(text, createWords) THEN "create"
       ELSE IF ContainsAny(text, modifyWords) THEN "modify"
       ELSE IF ContainsAny(text, deleteWords) THEN "delete"
       ELSE "create"

(***************************************************************************)
(* The numeric patterns.  Each is (\d+) followed by one or two groups of   *)
(* alternatives, every group preceded by \s*.  A match is the sequence     *)
(* <<whole match, group 1, group 2, ...>>, as FindAllStringSubmatch        *)
(* returns it (Go's match[k] is element k + 1 here).                       *)
(***************************************************************************)
numericPatterns ==
    << <<<<"gb", "tb", "mb">>, <<"storage", "disk", "memory", "ram">>>>,
       <<<<"cpu", "core", "vcpu">>>>,
       <<<<"instance", "server", "vm", "node">>>>,
       <<<<"port", "ports">>>> >>

RECURSIVE SkipDigits(_, _)
\* the first position at or after i that holds no digit (\d+ is greedy)
SkipDigits(s, i) ==
    IF i <= Len(s) /\ IsDigit(CharAt(s, i)) THEN SkipDigits(s, i + 1) ELSE i

RECURSIVE SkipSpaces(_, _)
\* the first position at or after i that holds no white space (\s* is greedy)
SkipSpaces(s, i) ==
    IF i <= Len(s) /\ IsSpace(CharAt(s, i)) THEN SkipSpaces(s, i + 1) ELSE i

\* the alternatives of a group that match at i; the leftmost one is preferred
AltsAt(s, i, alts) == {k \in 1..Len(alts) : HasPrefixAt(s, i, alts[k])}

RECURSIVE MatchGroups(_, _, _)
\* \s*(a|b|..) for every group in turn, from position i: <<>> when some group
\* fails, else <<end, captures>>
MatchGroups(s, i, groups) ==
    IF groups = <<>> THEN <<i, <<>>>>
    ELSE LET j == SkipSpaces(s, i)
             hits == AltsAt(s, j, Head(groups))
         IN IF hits = {} THEN <<>>
            ELSE LET word == Head(groups)[CHOOSE k \in hits : \A l \in hits : k <= l]
                     rest == MatchGroups(s, j + Len(word), Tail(groups))
                 IN IF rest = <<>> THEN <<>>
                    ELSE <<rest[1], <<word>> \o rest[2]>>

\* a match of the pattern that starts at i: <<>> when there is none, else
\* <<end, match>>
MatchAt(s, i, pattern) ==
    IF ~(i <= Len(s) /\ IsDigit(CharAt(s, i))) THEN <<>>
    ELSE LET d == SkipDigits(s, i)
             rest == MatchGroups(s, d, pattern)
         IN IF rest = <<>> THEN <<>>
            ELSE <<rest[1], <<SubSeq(s, i, rest[1] - 1), SubSeq(s, i, d - 1)>> \o rest[2]>>

RECURSIVE FindAllFrom(_, _, _)
FindAllFrom(s, i, pattern) ==
    IF i > Len(s) THEN <<>>
    ELSE LET m == MatchAt(s, i, pattern)
         IN IF m = <<>> THEN FindAllFrom(s, i + 1, pattern)
            ELSE <<m[2]>> \o FindAllFrom(s, m[1], pattern)

\* re.FindAllStringSubmatch(input, -1): the successive leftmost matches
FindAllStringSubmatch(pattern, s) == FindAllFrom(s, 1, pattern)

RECURSIVE AppendSpecifications(_, _)
\* the inner loop of extractNumericRequirements over the matches found so far:
\* match[3] of a match of length 3 is an index out of range
AppendSpecifications(matches, requirements) ==
    IF matches = <<>> THEN [panicked |-> FALSE, value |-> requirements]
    ELSE LET match == Head(matches)
         IN IF Len(match) >= 3
            THEN IF Len(match) < 4
                 THEN [panicked |-> TRUE, value |-> requirements]
                 ELSE AppendSpecifications(Tail(matches),
                        Append(requirements,
                               "Specification: " \o match[2] \o " " \o match[3]
                                   \o " " \o match[4]))
            ELSE AppendSpecifications(Tail(matches), requirements)

RECURSIVE AllMatches(_, _)
\* the matches of the patterns in pattern order, each pattern's in text order
AllMatches(patterns, s) ==
    IF patterns = <<>> THEN <<>>
    ELSE FindAllStringSubmatch(Head(patterns), s) \o AllMatches(Tail(patterns), s)

extractNumericRequirements(text) ==
    AppendSpecifications(AllMatches(numericPatterns, text), <<>>)

RECURSIVE TaggedMatches(_, _, _)
\* one loop of extractRequirements: "<tag>" + pattern for every pattern found
TaggedMatches(text, tag, patterns) ==
    IF patterns = <<>> THEN <<>>
    ELSE (IF Contains(text, Head(patterns)) THEN <<tag \o Head(patterns)>> ELSE <<>>)
         \o TaggedMatches(text, tag, Tail(patterns))

extractRequirements(text) ==
    LET securityPatterns == <<"secure", "security", "encrypted", "ssl", "tls", "https",
                              "private", "public", "firewall", "access control">>
        scalabilityPatterns == <<"scalable", "auto scaling", "high availability",
                                 "redundant", "multi-az", "multi-region", "load balanced">>
        performancePatterns == <<"fast", "performance", "optimized", "cached", "cdn">>
        requirements == TaggedMatches(text, "Security: ", securityPatterns)
                        \o TaggedMatches(text, "Scalability: ", scalabilityPatterns)
                        \o TaggedMatches(text, "Performance: ", performancePatterns)
        numericRequirements == extractNumericRequirements(text)
    IN [panicked |-> numericRequirements.panicked,
        value    |-> requirements \o numericRequirements.value]

\* Parse: the values the call can return, <<*ParsedInput, error>>, or <<>> for
\* a call that panics
Parse(e, text) ==
    LET in == ToLower(TrimSpace(text))
        requirements == extractRequirements(in)
    IN IF requirements.panicked THEN {<<>>}
       ELSE {<<[OriginalText  |-> in,
                CloudProvider |-> cloudProvider,
                Resources     |-> resources,
                Requirements  |-> requirements.value,
                Intent        |-> determineIntent(in)],
               "nil">> :
                cloudProvider \in detectCloudProvider(e, in),
                resources \in extractResources(e, in)}

(***************************************************************************)
(* The security scanner (package security).  A compiled pattern is the     *)
(* sequence of its parts: a literal, an alternation of literals, or a      *)
(* repetition of a character class.  A rule whose Pattern is the nil       *)
(* pointer has nil = TRUE.                                                 *)
(***************************************************************************)
Lit(str) == [kind |-> "lit", words |-> <<str>>, class |-> "", min |-> 1, max |-> 1]

Alt(words) == [kind |-> "alt", words |-> words, class |-> "", min |-> 1, max |-> 1]

\* class* (min = 0) and class+ (min = 1)
AtLeast(class, min) == [kind |-> "atleast", words |-> <<>>, class |-> class, min |-> min, max |-> min]

\* class{min,max}
Between(class, min, max) == [kind |-> "between", words |-> <<>>, class |-> class, min |-> min, max |-> max]

Compiled(parts) == [nil |-> FALSE, parts |-> parts]

NilPattern == [nil |-> TRUE, parts |-> <<>>]

\* \s, [^"], [^$] and . on one character
InClass(c, class) ==
    CASE class = "space" -> IsSpace(c)
      [] class = "notquote" -> c # "\""
      [] class = "notdollar" -> c # "$"
      [] class = "any" -> c # "\n"

\* how many characters from position i on belong to the class
RunLength(s, i, class) ==
    LET stops == {j \in i..Len(s) : ~InClass(CharAt(s, j), class)}
    IN IF i > Len(s) THEN 0
       ELSE IF stops = {} THEN Len(s) - i + 1
       ELSE (CHOOSE j \in stops : \A k \in stops : j <= k) - i

\* the positions at which a match of one part that starts at i can end
EndsAfter(s, i, part) ==
    CASE part.kind \in {"lit", "alt"} ->
            {i + Len(part.words[k]) : k \in {n \in 1..Len(part.words) : HasPrefixAt(s, i, part.words[n])}}
      [] part.kind = "atleast" ->
            {i + n : n \in part.min..RunLength(s, i, part.class)}
      [] part.kind = "between" ->
            {i + n : n \in {m \in part.min..part.max : m <= RunLength(s, i, part.class)}}

RECURSIVE MatchFrom(_, _, _)
\* the positions at which a match of the parts that starts at one of `starts` can end
MatchFrom(s, starts, parts) ==
    IF parts = <<>> \/ starts = {} THEN starts
    ELSE MatchFrom(s, UNION {EndsAfter(s, i, Head(parts)) : i \in starts}, Tail(parts))

\* MatchString of a pattern anchored at the start of s
MatchStringAnchored(re, s) == MatchFrom(s, {1}, re.parts) # {}

\* (*Regexp).MatchString: the pattern matches somewhere in s
MatchString(re, s) == MatchFrom(s, 1..(Len(s) + 1), re.parts) # {}

\* strings.Split(config, "\n"): the pieces between the newlines, one more
\* than there are newlines
SplitLines(config) ==
    LET breaks == {i \in 1..Len(config) : CharAt(config, i) = "\n"}
        break(k) == IF k = 0 THEN 0
                    ELSE IF k > Cardinality(breaks) THEN Len(config) + 1
                    ELSE CHOOSE b \in breaks : Cardinality({c \in breaks : c < b}) = k - 1
    IN [k \in 1..(Cardinality(breaks) + 1) |-> SubSeq(config, break(k - 1) + 1, break(k) - 1)]

SecurityRule(id, name, severity, pattern, message, remediation) ==
    [ID |-> id, Name |-> name, Severity |-> severity, Pattern |-> pattern,
     Message |-> message, Remediation |-> remediation]

Issue(severity, message, resource, line, rule, remediation) ==
    [Severity |-> severity, Message |-> message, Resource |-> resource, Line |-> line,
     Rule |-> rule, Remediation |-> remediation]

\* the rules loadDefaultRules stores in s.rules
loadDefaultRules ==
    << SecurityRule("SEC001", "Public S3 Bucket", "HIGH",
          Compiled(<<Lit("acl"), AtLeast("space", 0), Lit("="), AtLeast("space", 0),
                     Lit("\"public-read\"")>>),
          "S3 bucket configured with public read access",
          "Remove public ACL and use bucket policies for controlled access"),
       SecurityRule("SEC002", "Unencrypted Storage", "MEDIUM",
          Compiled(<<Lit("resource"), AtLeast("space", 1), Lit("\"aws_s3_bucket\"")>>),
          "S3 bucket may not have encryption enabled",
          "Enable server-side encryption for S3 buckets"),
       SecurityRule("SEC003", "Open Security Group", "CRITICAL",
          Compiled(<<Lit("cidr_blocks"), AtLeast("space", 0), Lit("="), AtLeast("space", 0),
                     Lit("[\"0.0.0.0/0\"]")>>),
          "Security group allows access from anywhere (0.0.0.0/0)",
          "Restrict CIDR blocks to specific IP ranges"),
       SecurityRule("SEC004", "Unencrypted EBS Volume", "MEDIUM",
          Compiled(<<Lit("resource"), AtLeast("space", 1), Lit("\"aws_ebs_volume\"")>>),
          "EBS volume may not have encryption enabled",
          "Enable encryption for EBS volumes"),
       SecurityRule("SEC005", "Public RDS Instance", "HIGH",
          Compiled(<<Lit("publicly_accessible"), AtLeast("space", 0), Lit("="),
                     AtLeast("space", 0), Lit("true")>>),
          "RDS instance is publicly accessible",
          "Set publicly_accessible to false for RDS instances"),
       SecurityRule("SEC006", "Weak Password Policy", "MEDIUM",
          Compiled(<<Lit("password"), AtLeast("space", 0), Lit("="), AtLeast("space", 0),
                     Lit("\""), Between("notquote", 1, 7), Lit("\"")>>),
          "Password appears to be too short",
          "Use strong passwords with at least 8 characters"),
       SecurityRule("SEC007", "Hardcoded Secrets", "CRITICAL",
          Compiled(<<Alt(<<"password", "secret", "key">>), AtLeast("space", 0), Lit("="),
                     AtLeast("space", 0), Lit("\""), Between("notdollar", 1, 1),
                     AtLeast("notquote", 0), Lit("\"")>>),
          "Potential hardcoded secret or password",
          "Use variables or AWS Secrets Manager for sensitive data"),
       SecurityRule("SEC008", "Missing HTTPS", "MEDIUM",
          Compiled(<<Lit("protocol"), AtLeast("space", 0), Lit("="), AtLeast("space", 0),
                     Lit("\"HTTP\"")>>),
          "Load balancer listener using HTTP instead of HTTPS",
          "Use HTTPS protocol for load balancer listeners"),
       SecurityRule("SEC009", "Default VPC Usage", "LOW",
          Compiled(<<Lit("default"), AtLeast("space", 0), Lit("="), AtLeast("space", 0),
                     Lit("true"), AtLeast("any", 0), Lit("vpc")>>),
          "Using default VPC may not follow security best practices",
          "Create custom VPC with proper network segmentation"),
       SecurityRule("SEC010", "Missing Backup", "MEDIUM",
          Compiled(<<Lit("backup_retention_period"), AtLeast("space", 0), Lit("="),
                     AtLeast("space", 0), Lit("0")>>),
          "Database backup retention period is set to 0",
          "Enable automated backups with appropriate retention period") >>

\* NewScanner: a scanner with the default rules
NewScanner == [rules |-> loadDefaultRules]

\* the match of resource\s+"([^"]+)"\s+"([^"]+)" that starts at i: <<>> when
\* there is none, else <<group 1, group 2>>.  \s+ must take the whole run of
\* white space and [^"]+ the whole run up to the next quote.
ResourceDeclarationAt(line, i) ==
    IF ~HasPrefixAt(line, i, "resource") THEN <<>>
    ELSE LET a == i + Len("resource")
             b == a + RunLength(line, a, "space")
             c == b + 1 + RunLength(line, b + 1, "notquote")
             d == c + 1 + RunLength(line, c + 1, "space")
             f == d + 1 + RunLength(line, d + 1, "notquote")
         IN IF /\ b > a
               /\ HasPrefixAt(line, b, "\"") /\ c > b + 1 /\ HasPrefixAt(line, c, "\"")
               /\ d > c + 1
               /\ HasPrefixAt(line, d, "\"") /\ f > d + 1 /\ HasPrefixAt(line, f, "\"")
            THEN <<SubSeq(line, b + 1, c - 1), SubSeq(line, d + 1, f - 1)>>
            ELSE <<>>

\* extractResourceName that returns the type alone
extractResourceNameTypeOnly(line) ==
    LET starts == {i \in 1..Len(line) : ResourceDeclarationAt(line, i) # <<>>}
    IN IF starts = {} THEN ""
       ELSE ResourceDeclarationAt(line, CHOOSE i \in starts : \A j \in starts : i <= j)[1]

\* extractResourceName: type.name of the leftmost resource declaration of the line
extractResourceName(line) ==
    LET starts == {i \in 1..Len(line) : ResourceDeclarationAt(line, i) # <<>>}
    IN IF starts = {} THEN ""
       ELSE LET matches == ResourceDeclarationAt(line, CHOOSE i \in starts : \A j \in starts : i <= j)
            IN matches[1] \o "." \o matches[2]

RECURSIVE rangeRulesFirstMatchOnly(_, _, _, _)
\* the inner loop of Scan with a break after the first rule that matches
rangeRulesFirstMatchOnly(rules, line, lineNum, issues) ==
    IF rules = <<>> THEN [panicked |-> FALSE, value |-> issues]
    ELSE LET rule == Head(rules)
         IN IF rule.Pattern.nil THEN [panicked |-> TRUE, value |-> issues]
            ELSE IF MatchString(rule.Pattern, line)
                 THEN [panicked |-> FALSE,
                       value |-> Append(issues, Issue(rule.Severity, rule.Message,
                                                      extractResourceName(line), lineNum + 1,
                                                      rule.ID, rule.Remediation))]
                 ELSE rangeRulesFirstMatchOnly(Tail(rules), line, lineNum, issues)

RECURSIVE rangeRules(_, _, _, _)
\* the inner loop of Scan for one line: the issues with those of the line
\* appended; rule.Pattern.MatchString on a nil Pattern panics
rangeRules(rules, line, lineNum, issues) ==
    IF rules = <<>> THEN [panicked |-> FALSE, value |-> issues]
    ELSE LET rule == Head(rules)
         IN IF rule.Pattern.nil THEN [panicked |-> TRUE, value |-> issues]
            ELSE rangeRules(Tail(rules), line, lineNum,
                    IF MatchString(rule.Pattern, line)
                    THEN Append(issues, Issue(rule.Severity, rule.Message,
                                              extractResourceName(line), lineNum + 1,
                                              rule.ID, rule.Remediation))
                    ELSE issues)

RECURSIVE rangeLines(_, _, _, _)
\* the outer loop of Scan from the line with index lineNum (from 0) on
rangeLines(rules, lines, lineNum, issues) ==
    IF lineNum >= Len(lines) THEN [panicked |-> FALSE, value |-> issues]
    ELSE LET found == rangeRules(rules, lines[lineNum + 1], lineNum, issues)
         IN IF found.panicked THEN found
            ELSE rangeLines(rules, lines, lineNum + 1, found.value)

\* performContextualScans whose EC2 check looks for security_groups only
performContextualScansOneCompanion(config) ==
    (IF Contains(config, "aws_s3_bucket") /\ ~Contains(config, "server_side_encryption")
     THEN <<Issue("MEDIUM", "S3 bucket missing server-side encryption configuration", "", 0,
                  "SEC011", "Add server_side_encryption_configuration block")>>
     ELSE <<>>)
    \o (IF Contains(config, "aws_s3_bucket") /\ ~Contains(config, "versioning")
        THEN <<Issue("LOW", "S3 bucket missing versioning configuration", "", 0,
                     "SEC012", "Enable versioning for S3 buckets")>>
        ELSE <<>>)
    \o (IF Contains(config, "aws_s3_bucket") /\ ~Contains(config, "mfa_delete")
        THEN <<Issue("LOW", "S3 bucket missing MFA delete protection", "", 0,
                     "SEC013", "Enable MFA delete for S3 buckets containing sensitive data")>>
        ELSE <<>>)
    \o (IF Contains(config, "aws_instance") /\ ~Contains(config, "security_groups")
        THEN <<Issue("HIGH", "EC2 instance missing security group configuration", "", 0,
                     "SEC014", "Assign appropriate security groups to EC2 instances")>>
        ELSE <<>>)
    \o (IF Contains(config, "aws_db_instance") /\ ~Contains(config, "storage_encrypted")
        THEN <<Issue("MEDIUM", "RDS instance missing storage encryption", "", 0,
                     "SEC015", "Enable storage encryption for RDS instances")>>
        ELSE <<>>)

performContextualScans(config) ==
    (IF Contains(config, "aws_s3_bucket") /\ ~Contains(config, "server_side_encryption")
     THEN <<Issue("MEDIUM", "S3 bucket missing server-side encryption configuration", "", 0,
                  "SEC011", "Add server_side_encryption_configuration block")>>
     ELSE <<>>)
    \o (IF Contains(config, "aws_s3_bucket") /\ ~Contains(config, "versioning")
        THEN <<Issue("LOW", "S3 bucket missing versioning configuration", "", 0,
                     "SEC012", "Enable versioning for S3 buckets")>>
        ELSE <<>>)
    \o (IF Contains(config, "aws_s3_bucket") /\ ~Contains(config, "mfa_delete")
        THEN <<Issue("LOW", "S3 bucket missing MFA delete protection", "", 0,
                     "SEC013", "Enable MFA delete for S3 buckets containing sensitive data")>>
        ELSE <<>>)
    \o (IF /\ Contains(config, "aws_instance")
           /\ ~Contains(config, "security_groups")
           /\ ~Contains(config, "vpc_security_group_ids")
        THEN <<Issue("HIGH", "EC2 instance missing security group configuration", "", 0,
                     "SEC014", "Assign appropriate security groups to EC2 instances")>>
        ELSE <<>>)
    \o (IF Contains(config, "aws_db_instance") /\ ~Contains(config, "storage_encrypted")
        THEN <<Issue("MEDIUM", "RDS instance missing storage encryption", "", 0,
                     "SEC015", "Enable storage encryption for RDS instances")>>
        ELSE <<>>)

\* Scan that puts the contextual issues first
ScanContextFirst(s, config) ==
    LET found == rangeLines(s.rules, SplitLines(config), 0, <<>>)
    IN IF found.panicked THEN <<>>
       ELSE <<performContextualScans(config) \o found.value, "nil">>

\* Scan that reports an error when it found nothing
ScanFailsOnNoIssues(s, config) ==
    LET found == rangeLines(s.rules, SplitLines(config), 0, <<>>)
        issues == found.value \o performContextualScans(config)
    IN IF found.panicked THEN <<>>
       ELSE <<issues, IF issues = <<>> THEN "no issues found" ELSE "nil">>

\* Scan: <<>> when the call panics, else the returned <<[]Issue, error>>
Scan(s, config) ==
    LET found == rangeLines(s.rules, SplitLines(config), 0, <<>>)
    IN IF found.panicked THEN <<>>
       ELSE <<found.value \o performContextualScans(config), "nil">>

\* AddCustomRule that puts the rule in front of the catalog
AddCustomRuleFirst(s, rule) == [s EXCEPT !.rules = <<rule>> \o s.rules]

\* AddCustomRule: the scanner with the rule appended
AddCustomRule(s, rule) == [s EXCEPT !.rules = Append(s.rules, rule)]

(***************************************************************************)
(* The callers' texts.                                                     *)
(***************************************************************************)
Vocabulary ==
    {" ", "AWS ", "azure vm", "Deploy Google Cloud ", "compute instances",
     "create vpc", " with mysql database", "deploy ec2",
     " instances with load balancer", "deploy 3 servers", "delete ", "scale ",
     "100 gb storage", "random infrastructure"}

RECURSIVE Texts(_)
\* the concatenations of at most n phrases
Texts(n) ==
    IF n = 0 THEN {""}
    ELSE LET shorter == Texts(n - 1)
         IN shorter \cup {t \o w : t \in shorter, w \in Vocabulary}

(***************************************************************************)
(* The state machine.  engine is the Engine the calls share, input the     *)
(* caller's text and calls the log of the calls made so far, each with its *)
(* argument and what it returned (ret = <<>>: the call panicked).          *)
(***************************************************************************)
Call(fn, arg, ret) == [fn |-> fn, arg |-> arg, ret |-> ret]

Init ==
    /\ engine = NewEngine
    /\ input \in Texts(MaxWords)
    /\ calls = <<>>
    /\ scanner = NewScanner
    /\ document = ""
    /\ threads = <<>>

\* a panic ends the program
Crashed == \E i \in 1..Len(calls) : calls[i].ret = <<>>

\* engine.Parse(input), as a first call or a repeated one
ParseInput ==
    /\ ~Crashed
    /\ Len(calls) < 2
    /\ \A i \in 1..Len(calls) : calls[i].fn = "Parse"
    /\ \E ret \in Parse(engine, input) :
          calls' = Append(calls, Call("Parse", input, ret))
    /\ UNCHANGED <<engine, input, scanner, document, threads>>

\* engine.Parse(parsed.OriginalText) for the record the first call returned
ParseOriginalText ==
    /\ ~Crashed
    /\ Len(calls) = 1
    /\ calls[1].fn = "Parse"
    /\ \E ret \in Parse(engine, calls[1].ret[1].OriginalText) :
          calls' = Append(calls, Call("Parse", calls[1].ret[1].OriginalText, ret))
    /\ UNCHANGED <<engine, input, scanner, document, threads>>

\* engine.detectCloudProvider(input), called directly as the tests do
DetectCloudProvider ==
    /\ calls = <<>>
    /\ \E ret \in detectCloudProvider(engine, input) :
          calls' = <<Call("detectCloudProvider", input, <<ret>>)>>
    /\ UNCHANGED <<engine, input, scanner, document, threads>>

\* engine.extractResources(input)
ExtractResources ==
    /\ calls = <<>>
    /\ \E ret \in extractResources(engine, input) :
          calls' = <<Call("extractResources", input, <<ret>>)>>
    /\ UNCHANGED <<engine, input, scanner, document, threads>>

\* engine.determineIntent(input)
DetermineIntent ==
    /\ calls = <<>>
    /\ calls' = <<Call("determineIntent", input, <<determineIntent(input)>>)>>
    /\ UNCHANGED <<engine, input, scanner, document, threads>>

Next ==
    \/ ParseInput
    \/ ParseOriginalText
    \/ DetectCloudProvider
    \/ ExtractResources
    \/ DetermineIntent

Spec == Init /\ [][Next]_vars

(***************************************************************************)
(* The requirement extractors called directly on a normalised text.        *)
(***************************************************************************)
RequirementVocabulary ==
    {"secure ", "encrypted tls ", "scalable ", "load balanced ", "fast cdn ",
     "3 instance", "100 gb storage", "2 cpu 4 ports ", "plain "}

RECURSIVE RequirementTexts(_)
RequirementTexts(n) ==
    IF n = 0 THEN {""}
    ELSE RequirementTexts(n - 1) \cup {t \o w : t \in RequirementTexts(n - 1), w \in RequirementVocabulary}

InitRequirements ==
    /\ engine = NewEngine
    /\ input \in RequirementTexts(MaxWords)
    /\ calls = <<>>
    /\ scanner = NewScanner
    /\ document = ""
    /\ threads = <<>>

\* engine.extractNumericRequirements(input)
ExtractNumericRequirements ==
    /\ ~Crashed
    /\ \A i \in 1..Len(calls) : calls[i].fn # "extractNumericRequirements"
    /\ LET numericRequirements == extractNumericRequirements(input)
       IN calls' = Append(calls, Call("extractNumericRequirements", input,
                                      IF numericRequirements.panicked THEN <<>>
                                      ELSE <<numericRequirements.value>>))
    /\ UNCHANGED <<engine, input, scanner, document, threads>>

\* engine.extractRequirements(input)
ExtractRequirements ==
    /\ ~Crashed
    /\ \A i \in 1..Len(calls) : calls[i].fn # "extractRequirements"
    /\ LET requirements == extractRequirements(input)
       IN calls' = Append(calls, Call("extractRequirements", input,
                                      IF requirements.panicked THEN <<>>
                                      ELSE <<requirements.value>>))
    /\ UNCHANGED <<engine, input, scanner, document, threads>>

NextRequirements ==
    \/ ExtractNumericRequirements
    \/ ExtractRequirements

SpecRequirements == InitRequirements /\ [][NextRequirements]_vars

(***************************************************************************)
(* Parse and extractResources on texts that name resources of the six      *)
(* categories and their attributes.                                        *)
(***************************************************************************)
AttributeVocabulary ==
    {"ubuntu vm ", "Windows server ", "centos instance ", "public subnet ",
     "private network ", "mysql db ", "postgres database ", "bucket function ", "docker "}

RECURSIVE AttributeTexts(_)
AttributeTexts(n) ==
    IF n = 0 THEN {""}
    ELSE LET shorter == AttributeTexts(n - 1)
         IN shorter \cup {t \o w : t \in shorter, w \in AttributeVocabulary}

InitAttributes ==
    /\ engine = NewEngine
    /\ input \in AttributeTexts(MaxWords)
    /\ calls = <<>>
    /\ scanner = NewScanner
    /\ document = ""
    /\ threads = <<>>

\* engine.Parse(input), once
ParseOnce ==
    /\ calls = <<>>
    /\ \E ret \in Parse(engine, input) :
          calls' = <<Call("Parse", input, ret)>>
    /\ UNCHANGED <<engine, input, scanner, document, threads>>

NextAttributes ==
    \/ ParseOnce
    \/ ExtractResources

SpecAttributes == InitAttributes /\ [][NextAttributes]_vars

(***************************************************************************)
(* One scanner, one Terraform document: the caller registers custom rules  *)
(* and scans the document.  A document is at most MaxLines lines joined by *)
(* newlines.                                                               *)
(***************************************************************************)
LineVocabulary ==
    {"",
     "resource \"aws_s3_bucket\" \"data\" { acl = \"public-read\" }",
     "  cidr_blocks = [\"0.0.0.0/0\"]",
     "resource \"aws_instance\" \"web\" { vpc_security_group_ids = [] }",
     "resource \"aws_instance\" \"app\" {}",
     "resource \"aws_db_instance\" \"db\" { password = \"abc\" }",
     "  server_side_encryption_configuration {}",
     "  versioning { mfa_delete = \"Enabled\" }",
     "  storage_encrypted = true"}

RECURSIVE Documents(_)
Documents(n) ==
    IF n = 1 THEN LineVocabulary
    ELSE Documents(n - 1) \cup {d \o "\n" \o l : d \in Documents(n - 1), l \in LineVocabulary}

\* the rules a caller registers: two with a compiled pattern, one whose
\* Pattern was left nil
CustomRules ==
    {SecurityRule("CUS001", "Resource Declaration", "LOW",
                  Compiled(<<Lit("resource"), AtLeast("space", 1), Lit("\"")>>),
                  "Resource declared", "Review the resource"),
     SecurityRule("CUS002", "Public Keyword", "HIGH",
                  Compiled(<<Alt(<<"public", "0.0.0.0">>)>>),
                  "Public exposure", "Review the exposure"),
     SecurityRule("CUS003", "No Pattern", "LOW", NilPattern,
                  "Rule without pattern", "")}

InitScan ==
    /\ engine = NewEngine
    /\ input = ""
    /\ calls = <<>>
    /\ scanner = NewScanner
    /\ document \in Documents(MaxLines)
    /\ threads = <<>>

\* scanner.AddCustomRule(rule); a caller registers a rule once, before it scans
AddRule ==
    /\ ~Crashed
    /\ \A i \in 1..Len(calls) : calls[i].fn # "Scan"
    /\ \E rule \in CustomRules :
          /\ \A k \in 1..Len(scanner.rules) : scanner.rules[k].ID # rule.ID
          /\ scanner' = AddCustomRule(scanner, rule)
          /\ calls' = Append(calls, Call("AddCustomRule", rule, <<"done">>))
    /\ UNCHANGED <<engine, input, document, threads>>

\* scanner.Scan(document)
ScanDocument ==
    /\ ~Crashed
    /\ Cardinality({i \in 1..Len(calls) : calls[i].fn = "Scan"}) < 2
    /\ calls' = Append(calls, Call("Scan", document, Scan(scanner, document)))
    /\ UNCHANGED <<engine, input, scanner, document, threads>>

NextScan ==
    \/ AddRule
    \/ ScanDocument

SpecScan == InitScan /\ [][NextScan]_vars

(***************************************************************************)
(* One scanner used for several scans in a row: the document, and between  *)
(* its scans another document.                                             *)
(***************************************************************************)
OtherDocument ==
    "resource \"aws_s3_bucket\" \"logs\" { acl = \"public-read\" }\n  password = \"hunter2\""

InitRescan ==
    /\ engine = NewEngine
    /\ input = ""
    /\ calls = <<>>
    /\ scanner = NewScanner
    /\ document \in Documents(MaxLines)
    /\ threads = <<>>

\* the Scanner after a Scan that drops the first rule of the catalog
ScanReceiverConsumesRule(s, config) == [s EXCEPT !.rules = Tail(s.rules)]

\* the Scanner after Scan(config): Scan assigns no field of s
ScanReceiver(s, config) == s

\* scanner.Scan(config) on the document or on the other one
ScanAgain ==
    /\ ~Crashed
    /\ Len(calls) < 3
    /\ \E config \in {document, OtherDocument} :
          /\ calls' = Append(calls, Call("Scan", config, Scan(scanner, config)))
          /\ scanner' = ScanReceiver(scanner, config)
    /\ UNCHANGED <<engine, input, document, threads>>

NextRescan == ScanAgain

SpecRescan == InitRescan /\ [][NextRescan]_vars

(***************************************************************************)
(* Concurrent callers (the web server's request handlers share one engine  *)
(* and one scanner).  Every thread makes one call, Scan(document) or       *)
(* Parse(input), a step at a time: Scan one line per step and then the     *)
(* contextual checks, Parse one extractor per step.  What a call keeps in  *)
(* its local variables is in the thread's record.                          *)
(***************************************************************************)
ConcurrentDocuments ==
    {"",
     "resource \"aws_db_instance\" \"db\" { password = \"abc\" }",
     "resource \"aws_s3_bucket\" \"data\" { acl = \"public-read\" }\n  cidr_blocks = [\"0.0.0.0/0\"]"}

ConcurrentTexts == {"  Create VPC ", "Deploy VM with Azure storage", "deploy 3 servers"}

\* a thread that has not called yet
Idle ==
    [op |-> "", pc |-> "idle", lineNum |-> 0, issues |-> <<>>,
     parsed |-> [OriginalText |-> "", CloudProvider |-> "", Resources |-> <<>>,
                 Requirements |-> <<>>, Intent |-> ""],
     panicked |-> FALSE, ret |-> <<>>]

InitConcurrent ==
    /\ engine = NewEngine
    /\ input \in ConcurrentTexts
    /\ calls = <<>>
    /\ scanner = NewScanner
    /\ document \in ConcurrentDocuments
    /\ threads = [t \in 1..MaxThreads |-> Idle]

\* a panic in one goroutine ends the program
ConcurrentCrashed == \E t \in 1..MaxThreads : threads[t].panicked

\* the slice `issues` that the Scan call of thread t appends to
IssuesOfShared(ths, t) == ths[1].issues

IssuesOf(ths, t) == ths[t].issues

\* the rule a caller registers while scans run
OverlapRule ==
    SecurityRule("CUS002", "Public Keyword", "HIGH",
                 Compiled(<<Alt(<<"public", "0.0.0.0">>)>>),
                 "Public exposure", "Review the exposure")

\* an AddCustomRule call is storing the new slice header of s.rules
Storing == \E t \in 1..MaxThreads : threads[t].op = "AddCustomRule" /\ threads[t].pc = "storing"

\* what `range s.rules` can read.  AddCustomRule and Scan take no lock: while
\* the header is being stored the read is a data race, and yields the old
\* slice, the new slice, or the old array with the new length, whose last
\* element is not a rule (its Pattern is no compiled pattern).
ReadRules ==
    IF Storing
    THEN {scanner.rules,
          Append(scanner.rules, OverlapRule),
          Append(scanner.rules, SecurityRule("", "", "", NilPattern, "", ""))}
    ELSE {scanner.rules}

\* Scan is entered: var issues []Issue, lines := strings.Split(config, "\n")
BeginScan(t) ==
    /\ ~ConcurrentCrashed
    /\ threads[t].pc = "idle"
    /\ threads' = [threads EXCEPT ![t].op = "Scan", ![t].pc = "lines"]
    /\ UNCHANGED <<engine, input, calls, scanner, document>>

\* one iteration of the loop over the lines: s.rules is read and ranged over
ScanLine(t) ==
    /\ ~ConcurrentCrashed
    /\ threads[t].pc = "lines"
    /\ threads[t].lineNum < Len(SplitLines(document))
    /\ \E rules \in ReadRules :
          LET found == rangeRules(rules, SplitLines(document)[threads[t].lineNum + 1],
                                  threads[t].lineNum, IssuesOf(threads, t))
          IN threads' = IF found.panicked
                        THEN [threads EXCEPT ![t].pc = "done", ![t].panicked = TRUE]
                        ELSE [threads EXCEPT ![t].issues = found.value,
                                             ![t].lineNum = threads[t].lineNum + 1]
    /\ UNCHANGED <<engine, input, calls, scanner, document>>

\* after the last line: the contextual issues are appended and Scan returns
ScanContext(t) ==
    /\ ~ConcurrentCrashed
    /\ threads[t].pc = "lines"
    /\ threads[t].lineNum = Len(SplitLines(document))
    /\ threads' = [threads EXCEPT
                      ![t].issues = IssuesOf(threads, t) \o performContextualScans(document),
                      ![t].ret = <<IssuesOf(threads, t) \o performContextualScans(document), "nil">>,
                      ![t].pc = "done"]
    /\ UNCHANGED <<engine, input, calls, scanner, document>>

\* Parse is entered: the text is normalised and the provider detected
ParseProvider(t) ==
    /\ ~ConcurrentCrashed
    /\ threads[t].pc = "idle"
    /\ LET in == ToLower(TrimSpace(input))
       IN \E cloudProvider \in detectCloudProvider(engine, in) :
             threads' = [threads EXCEPT ![t].op = "Parse",
                                        ![t].pc = "resources",
                                        ![t].parsed.OriginalText = in,
                                        ![t].parsed.CloudProvider = cloudProvider]
    /\ UNCHANGED <<engine, input, calls, scanner, document>>

ParseResources(t) ==
    /\ ~ConcurrentCrashed
    /\ threads[t].pc = "resources"
    /\ \E resources \in extractResources(engine, threads[t].parsed.OriginalText) :
          threads' = [threads EXCEPT ![t].pc = "requirements",
                                     ![t].parsed.Resources = resources]
    /\ UNCHANGED <<engine, input, calls, scanner, document>>

ParseRequirements(t) ==
    /\ ~ConcurrentCrashed
    /\ threads[t].pc = "requirements"
    /\ LET requirements == extractRequirements(threads[t].parsed.OriginalText)
       IN threads' = IF requirements.panicked
                     THEN [threads EXCEPT ![t].pc = "done", ![t].panicked = TRUE]
                     ELSE [threads EXCEPT ![t].pc = "intent",
                                          ![t].parsed.Requirements = requirements.value]
    /\ UNCHANGED <<engine, input, calls, scanner, document>>

\* the intent is determined and Parse returns
ParseIntent(t) ==
    /\ ~ConcurrentCrashed
    /\ threads[t].pc = "intent"
    /\ LET parsed == [threads[t].parsed EXCEPT
                         !.Intent = determineIntent(threads[t].parsed.OriginalText)]
       IN threads' = [threads EXCEPT ![t].pc = "done",
                                     ![t].parsed = parsed,
                                     ![t].ret = <<parsed, "nil">>]
    /\ UNCHANGED <<engine, input, calls, scanner, document>>

\* AddCustomRule is entered: append builds the longer slice
BeginAdd(t) ==
    /\ ~ConcurrentCrashed
    /\ threads[t].pc = "idle"
    /\ \A u \in 1..MaxThreads : threads[u].op # "AddCustomRule"
    /\ threads' = [threads EXCEPT ![t].op = "AddCustomRule", ![t].pc = "storing"]
    /\ UNCHANGED <<engine, input, calls, scanner, document>>

\* s.rules holds the longer slice and AddCustomRule returns
EndAdd(t) ==
    /\ ~ConcurrentCrashed
    /\ threads[t].op = "AddCustomRule"
    /\ threads[t].pc = "storing"
    /\ scanner' = AddCustomRule(scanner, OverlapRule)
    /\ threads' = [threads EXCEPT ![t].pc = "done"]
    /\ UNCHANGED <<engine, input, calls, document>>

NextConcurrent ==
    \E t \in 1..MaxThreads :
        \/ BeginScan(t)
        \/ ScanLine(t)
        \/ ScanContext(t)
        \/ ParseProvider(t)
        \/ ParseResources(t)
        \/ ParseRequirements(t)
        \/ ParseIntent(t)

SpecConcurrent == InitConcurrent /\ [][NextConcurrent]_vars

(***************************************************************************)
(* Scans that run while a caller registers a custom rule.                  *)
(***************************************************************************)
InitOverlap ==
    /\ engine = NewEngine
    /\ input = ""
    /\ calls = <<>>
    /\ scanner = NewScanner
    /\ document \in ConcurrentDocuments
    /\ threads = [t \in 1..MaxThreads |-> Idle]

NextOverlap ==
    \E t \in 1..MaxThreads :
        \/ BeginScan(t)
        \/ ScanLine(t)
        \/ ScanContext(t)
        \/ BeginAdd(t)
        \/ EndAdd(t)

SpecOverlap == InitOverlap /\ [][NextOverlap]_vars

(***************************************************************************)
(* The generation pipeline: the provider's cleanResponse, the generator's  *)
(* Validate and EstimateCost, and the two callers that run the stages, the *)
(* web handler handleGenerate and the command generateCmd.                 *)
(***************************************************************************)
\* the largest number of lines of a response given to cleanResponse
MaxResponseLines == 3

\* the fence of a code block, three backquotes in the source; a string of
\* the module cannot hold a backquote, and the tilde stands for it
Fence == "~~~"

RECURSIVE Join(_, _)
\* strings.Join(elems, sep)
Join(elems, sep) ==
    IF elems = <<>> THEN ""
    ELSE IF Len(elems) = 1 THEN elems[1]
    ELSE elems[1] \o sep \o Join(Tail(elems), sep)

RECURSIVE rangeResponseLinesKeepClosingFence(_, _, _)
\* rangeResponseLines that keeps the fence line that closes a block
rangeResponseLinesKeepClosingFence(lines, inCodeBlock, result) ==
    IF lines = <<>> THEN result
    ELSE IF HasPrefixAt(Head(lines), 1, Fence)
         THEN rangeResponseLinesKeepClosingFence(Tail(lines), ~inCodeBlock,
                  IF inCodeBlock THEN Append(result, Head(lines)) ELSE result)
    ELSE IF inCodeBlock
         THEN rangeResponseLinesKeepClosingFence(Tail(lines), inCodeBlock,
                                                 Append(result, Head(lines)))
    ELSE rangeResponseLinesKeepClosingFence(Tail(lines), inCodeBlock, result)

RECURSIVE rangeResponseLines(_, _, _)
\* the loop of cleanResponse over the lines: a line that starts with a fence
\* flips inCodeBlock and is skipped, another line is appended while
\* inCodeBlock is set
rangeResponseLines(lines, inCodeBlock, result) ==
    IF lines = <<>> THEN result
    ELSE IF HasPrefixAt(Head(lines), 1, Fence)
         THEN rangeResponseLines(Tail(lines), ~inCodeBlock, result)
    ELSE IF inCodeBlock
         THEN rangeResponseLines(Tail(lines), inCodeBlock, Append(result, Head(lines)))
    ELSE rangeResponseLines(Tail(lines), inCodeBlock, result)

\* OpenAIProvider.cleanResponse(content)
cleanResponse(content) ==
    IF Contains(content, Fence)
    THEN LET result == rangeResponseLines(SplitLines(content), FALSE, <<>>)
         IN IF Len(result) > 0 THEN Join(result, "\n") ELSE content
    ELSE content

\* what the model of the API answers: a bare configuration, a fenced one, a
\* fenced one inside prose, and a fenced block that is not HCL
Completions ==
    {"  storage_encrypted = true",
     "~~~hcl\nresource \"aws_instance\" \"app\" {}\n~~~",
     "Here is the configuration:\n~~~\nresource \"aws_db_instance\" \"db\" { password = \"abc\" }\n~~~\nApply it.",
     "~~~\nresource \"aws_s3_bucket\" \"logs\" {}",
     "~~~\nresource {\n~~~"}

\* OpenAIProvider.GenerateConfig(parsed) when the API answers content, or
\* fails: the outcomes of the call
GenerateConfig(parsed, content) ==
    {<<"", "failed to call OpenAI API">>, <<cleanResponse(content), "nil">>}

\* Generator.Format(config): hclwrite.ParseConfig followed by file.Bytes()
\* gives back the bytes that were parsed
Format(config) == <<config, "nil">>

\* Generator.Validate(config): the verdict of the HCL parser is a choice, a
\* configuration it accepts is returned as Format leaves it
Validate(config) ==
    {<<"", "HCL syntax errors">>}
    \cup (IF Format(config)[2] # "nil" THEN {<<"", "failed to format configuration">>}
          ELSE {<<Format(config)[1], "nil">>})

\* the resource types EstimateCost looks for, with the entry each one adds
CostTable ==
    << <<"aws_instance", "EC2 Instances", 50>>,
       <<"aws_rds_instance", "RDS Database", 100>>,
       <<"aws_lb", "Load Balancer", 25>>,
       <<"aws_s3_bucket", "S3 Storage", 10>>,
       <<"google_container_cluster", "GKE Cluster", 150>> >>

\* Generator.EstimateCost(config): the map as a set of <<key, amount>>
EstimateCost(config) ==
    <<{<<CostTable[k][2], CostTable[k][3]>> :
          k \in {j \in 1..Len(CostTable) : Contains(config, CostTable[j][1])}},
      "nil">>

\* hasHighSeverityIssues that looks for HIGH only
hasHighSeverityIssuesHighOnly(issues) ==
    \E k \in 1..Len(issues) : issues[k].Severity = "HIGH"

\* hasHighSeverityIssues(issues)
hasHighSeverityIssues(issues) ==
    \E k \in 1..Len(issues) : issues[k].Severity = "HIGH" \/ issues[k].Severity = "CRITICAL"

\* the descriptions a caller sends; the empty one is a request without one
Descriptions == {"", "  Create VPC ", "Deploy VM with Azure storage", "deploy 3 servers"}

\* a call that panicked or returned an error
Failed(i) == calls[i].ret = <<>> \/ calls[i].ret[Len(calls[i].ret)] # "nil"

(***************************************************************************)
(* The web handler.  A request is a description (input) and a provider;    *)
(* the API would answer document.  A stage is a step of the handler, and a *)
(* stage that fails sends the response in the same step.                   *)
(***************************************************************************)
InitGenerate ==
    /\ engine = NewEngine
    /\ input \in Descriptions
    /\ calls = <<>>
    /\ scanner = NewScanner
    /\ document \in Completions
    /\ threads = <<>>

\* GenerateResponse
GenerateResponse(configuration, issues, costs, success, error) ==
    [Configuration |-> configuration, Issues |-> issues, Costs |-> costs,
     Success |-> success, Error |-> error]

\* c.JSON(status, GenerateResponse{Success: false, Error: error})
Refuse(status, error) ==
    Call("JSON", status, <<GenerateResponse("", <<>>, {}, FALSE, error)>>)

\* the handler has got through stage n and has not answered
AtStage(n) ==
    /\ Len(calls) = n
    /\ ~Crashed
    /\ \A i \in 1..n : calls[i].fn # "JSON"

\* c.ShouldBindJSON(&req): description is required
BindRequest ==
    /\ AtStage(0)
    /\ IF input = ""
       THEN calls' = <<Call("ShouldBindJSON", input, <<"Description is required">>),
                       Refuse(400, "Description is required")>>
       ELSE calls' = <<Call("ShouldBindJSON", input, <<"nil">>)>>
    /\ UNCHANGED <<engine, input, scanner, document, threads>>

\* s.nlpEngine.Parse(req.Description), then the provider of the request
\* replaces the detected one
ParseDescription ==
    /\ AtStage(1)
    /\ \E ret \in Parse(engine, input), provider \in {"", "gcp"} :
          IF ret = <<>>
          THEN calls' = Append(calls, Call("Parse", input, ret))
          ELSE IF ret[2] # "nil"
          THEN calls' = calls \o <<Call("Parse", input, ret),
                                   Refuse(500, "Failed to parse description: " \o ret[2])>>
          ELSE calls' = Append(calls,
                   Call("Parse", input,
                        <<IF provider # "" THEN [ret[1] EXCEPT !.CloudProvider = provider]
                          ELSE ret[1], "nil">>))
    /\ UNCHANGED <<engine, input, scanner, document, threads>>

\* s.aiProvider.GenerateConfig(parsed)
GenerateConfiguration ==
    /\ AtStage(2)
    /\ \E ret \in GenerateConfig(calls[2].ret[1], document) :
          IF ret[2] # "nil"
          THEN calls' = calls \o <<Call("GenerateConfig", calls[2].ret[1], ret),
                                   Refuse(500, "Failed to generate configuration: " \o ret[2])>>
          ELSE calls' = Append(calls, Call("GenerateConfig", calls[2].ret[1], ret))
    /\ UNCHANGED <<engine, input, scanner, document, threads>>

\* s.tfGenerator.Validate(config)
ValidateConfiguration ==
    /\ AtStage(3)
    /\ \E ret \in Validate(calls[3].ret[1]) :
          IF ret[2] # "nil"
          THEN calls' = calls \o <<Call("Validate", calls[3].ret[1], ret),
                                   Refuse(500, "Failed to validate configuration: " \o ret[2])>>
          ELSE calls' = Append(calls, Call("Validate", calls[3].ret[1], ret))
    /\ UNCHANGED <<engine, input, scanner, document, threads>>

\* s.secScanner.Scan(validated)
ScanConfiguration ==
    /\ AtStage(4)
    /\ \E validated \in {calls[4].ret[1]} :
       \E ret \in {Scan(scanner, validated)} :
          IF ret = <<>>
          THEN calls' = Append(calls, Call("Scan", validated, ret))
          ELSE IF ret[2] # "nil"
          THEN calls' = calls \o <<Call("Scan", validated, ret),
                                   Refuse(500, "Security scan failed: " \o ret[2])>>
          ELSE calls' = Append(calls, Call("Scan", validated, ret))
    /\ UNCHANGED <<engine, input, scanner, document, threads>>

\* s.tfGenerator.EstimateCost(validated), an empty map in place of a failed
\* estimate, and the response
EstimateAndRespond ==
    /\ AtStage(5)
    /\ \E validated \in {calls[4].ret[1]}, issues \in {calls[5].ret[1]} :
       \E ret \in {EstimateCost(validated)} :
          LET costs == IF ret[2] # "nil" THEN {} ELSE ret[1]
          IN calls' = calls \o
                <<Call("EstimateCost", validated, ret),
                  Call("JSON", 200,
                       <<GenerateResponse(validated, issues, costs, TRUE, "")>>)>>
    /\ UNCHANGED <<engine, input, scanner, document, threads>>

NextGenerate ==
    \/ BindRequest
    \/ ParseDescription
    \/ GenerateConfiguration
    \/ ValidateConfiguration
    \/ ScanConfiguration
    \/ EstimateAndRespond

SpecGenerate == InitGenerate /\ [][NextGenerate]_vars

(***************************************************************************)
(* The command generate.  Its argument is input, the API would answer      *)
(* document; a setting is chosen where the code reads it.  A stage is a    *)
(* step of the command, and a stage that fails returns in the same step.   *)
(***************************************************************************)
InitCommand ==
    /\ engine = NewEngine
    /\ input \in Descriptions
    /\ calls = <<>>
    /\ scanner = NewScanner
    /\ document \in Completions
    /\ threads = <<>>

\* return err, or return nil
Return(err) == Call("return", "generate", <<err>>)

\* the command has returned
Exited == \E i \in 1..Len(calls) : calls[i].fn = "return"

\* the command is running and has made n calls
Running(n) == Len(calls) = n /\ ~Crashed /\ ~Exited

\* nlpEngine.Parse(description)
CmdParse ==
    /\ Running(0)
    /\ \E ret \in Parse(engine, input) :
          IF ret = <<>> THEN calls' = <<Call("Parse", input, ret)>>
          ELSE IF ret[2] # "nil"
          THEN calls' = <<Call("Parse", input, ret), Return("failed to parse description")>>
          ELSE calls' = <<Call("Parse", input, ret)>>
    /\ UNCHANGED <<engine, input, scanner, document, threads>>

\* aiProvider.GenerateConfig(parsed)
CmdGenerate ==
    /\ Running(1)
    /\ \E ret \in GenerateConfig(calls[1].ret[1], document) :
          IF ret[2] # "nil"
          THEN calls' = calls \o <<Call("GenerateConfig", calls[1].ret[1], ret),
                                   Return("failed to generate configuration")>>
          ELSE calls' = Append(calls, Call("GenerateConfig", calls[1].ret[1], ret))
    /\ UNCHANGED <<engine, input, scanner, document, threads>>

\* tfGenerator.Validate(config)
CmdValidate ==
    /\ Running(2)
    /\ \E ret \in Validate(calls[2].ret[1]) :
          IF ret[2] # "nil"
          THEN calls' = calls \o <<Call("Validate", calls[2].ret[1], ret),
                                   Return("failed to validate configuration")>>
          ELSE calls' = Append(calls, Call("Validate", calls[2].ret[1], ret))
    /\ UNCHANGED <<engine, input, scanner, document, threads>>

\* the block under viper.GetBool("security.scan_enabled"): the scan and,
\* when it found something, fail_on_high && hasHighSeverityIssues(issues)
CmdScan ==
    /\ Running(3)
    /\ \E enabled \in BOOLEAN, failOnHigh \in BOOLEAN, validated \in {calls[3].ret[1]} :
       \E ret \in {Scan(scanner, validated)} :
          LET read      == Call("GetBool", "security.scan_enabled", <<enabled>>)
              scanned   == Call("Scan", validated, ret)
              readFail  == Call("GetBool", "security.fail_on_high", <<failOnHigh>>)
              asked     == Call("hasHighSeverityIssues", ret[1],
                                <<hasHighSeverityIssues(ret[1])>>)
          IN calls' = calls \o
                (IF ~enabled THEN <<read>>
                 ELSE IF ret = <<>> THEN <<read, scanned>>
                 ELSE IF ret[2] # "nil"
                 THEN <<read, scanned, Return("security scan failed")>>
                 ELSE IF Len(ret[1]) = 0 THEN <<read, scanned>>
                 ELSE IF ~failOnHigh THEN <<read, scanned, readFail>>
                 ELSE IF hasHighSeverityIssues(ret[1])
                 THEN <<read, scanned, readFail, asked,
                        Return("high severity security issues found")>>
                 ELSE <<read, scanned, readFail, asked>>)
    /\ UNCHANGED <<engine, input, scanner, document, threads>>

\* the output: os.WriteFile(outputFile, validated) when the flag names a
\* file, fmt.Println(validated) otherwise
CmdOutput ==
    /\ Len(calls) > 3
    /\ ~Crashed
    /\ ~Exited
    /\ \E outputFile \in {"", "main.tf"}, err \in {"nil", "permission denied"},
          validated \in {calls[3].ret[1]} :
          calls' = calls \o
                (IF outputFile = ""
                 THEN <<Call("Println", validated, <<"nil">>), Return("nil")>>
                 ELSE IF err # "nil"
                 THEN <<Call("WriteFile", <<outputFile, validated>>, <<err>>),
                        Return("failed to write output file")>>
                 ELSE <<Call("WriteFile", <<outputFile, validated>>, <<err>>),
                        Return("nil")>>)
    /\ UNCHANGED <<engine, input, scanner, document, threads>>

NextCommand ==
    \/ CmdParse
    \/ CmdGenerate
    \/ CmdValidate
    \/ CmdScan
    \/ CmdOutput

SpecCommand == InitCommand /\ [][NextCommand]_vars

(***************************************************************************)
(* cleanResponse on its own: a response is at most MaxResponseLines lines  *)
(* joined by newlines; it is cleaned, and the result is cleaned again.     *)
(***************************************************************************)
ResponseVocabulary == {"", "a", "~~~", "~~~hcl", "b ~~~"}

RECURSIVE Responses(_)
Responses(n) ==
    IF n = 1 THEN ResponseVocabulary
    ELSE Responses(n - 1)
         \cup {r \o "\n" \o l : r \in Responses(n - 1), l \in ResponseVocabulary}

InitClean ==
    /\ engine = NewEngine
    /\ input \in Responses(MaxResponseLines)
    /\ calls = <<>>
    /\ scanner = NewScanner
    /\ document = ""
    /\ threads = <<>>

\* p.cleanResponse(content) on the response
CleanResponse ==
    /\ calls = <<>>
    /\ calls' = <<Call("cleanResponse", input, <<cleanResponse(input)>>)>>
    /\ UNCHANGED <<engine, input, scanner, document, threads>>

\* p.cleanResponse on what the first call returned
CleanAgain ==
    /\ Len(calls) = 1
    /\ calls' = Append(calls, Call("cleanResponse", calls[1].ret[1],
                                   <<cleanResponse(calls[1].ret[1])>>))
    /\ UNCHANGED <<engine, input, scanner, document, threads>>

NextClean == CleanResponse \/ CleanAgain

SpecClean == InitClean /\ [][NextClean]_vars

(***************************************************************************)
(* Properties.                                                             *)
(***************************************************************************)
\* the calls of fn made so far
CallsOf(fn) == {i \in 1..Len(calls) : calls[i].fn = fn}

\* a call that returned (it did not panic)
Returned(i) == calls[i].ret # <<>>

\* s holds nothing but white space
Blank(s) == \A k \in 1..Len(s) : IsSpace(CharAt(s, k))

\* some word of the set occurs in the text
Mentions(text, words) == \E w \in words : Contains(text, w)

\* the providers / resource categories of the engine's tables that have a
\* keyword in the text
ProvidersIn(text) ==
    {p \in DOMAIN engine.cloudProviders :
        \E k \in 1..Len(engine.cloudProviders[p]) : Contains(text, engine.cloudProviders[p][k])}

CategoriesIn(text) ==
    {c \in DOMAIN engine.resourceTypes :
        \E k \in 1..Len(engine.resourceTypes[c]) : Contains(text, engine.resourceTypes[c][k])}

\* the order in which NewEngine writes the two tables
ProviderTable == <<"aws", "azure", "gcp">>

CategoryTable == <<"compute", "storage", "network", "database", "container", "serverless">>

\* the place of x in a table
PlaceIn(table, x) == CHOOSE k \in 1..Len(table) : table[k] = x

\* what has been seen of provider detection: <<text looked at, provider reported>>
\* for the direct calls and for the records Parse returned
ProviderSeen ==
    {<<calls[i].arg, calls[i].ret[1]>> : i \in CallsOf("detectCloudProvider")}
    \cup {<<calls[i].ret[1].OriginalText, calls[i].ret[1].CloudProvider>> :
            i \in {j \in CallsOf("Parse") : Returned(j)}}

\* likewise <<text looked at, resources reported>>
ResourcesSeen ==
    {<<calls[i].arg, calls[i].ret[1]>> : i \in CallsOf("extractResources")}
    \cup {<<calls[i].ret[1].OriginalText, calls[i].ret[1].Resources>> :
            i \in {j \in CallsOf("Parse") : Returned(j)}}

\* C1: Parse is total: every call of Parse returns a record and a nil error, it
\* never panics (stated as the claim has it; the code panics on the count patterns)
C1_ParseIsTotal ==
    \A i \in CallsOf("Parse") : Returned(i) /\ calls[i].ret[2] = "nil"

\* C2: Parse of the empty string, and of a text of white space only, returns the
\* default record (aws, no resources, no requirements, create) and a nil error
C2_BlankTextDefaultRecord ==
    \A i \in CallsOf("Parse") :
        Blank(calls[i].arg) =>
            calls[i].ret = <<[OriginalText  |-> "",
                              CloudProvider |-> "aws",
                              Resources     |-> <<>>,
                              Requirements  |-> <<>>,
                              Intent        |-> "create"],
                             "nil">>

\* C2 witness: Parse was called on a text of two blanks and then on the empty
\* OriginalText it returned
C2_Witness ==
    /\ Len(calls) = 2
    /\ calls[1].fn = "Parse" /\ calls[1].arg = "  "
    /\ calls[2].fn = "Parse" /\ calls[2].arg = ""
    /\ Returned(2)

C4_FirstProviderInTableOrder ==
    \A seen \in ProviderSeen :
        LET hit == ProvidersIn(seen[1])
        IN Cardinality(hit) > 1 =>
              /\ seen[2] \in hit
              /\ \A p \in hit : PlaceIn(ProviderTable, seen[2]) <= PlaceIn(ProviderTable, p)

\* C5: a text that says google and has no AWS keyword is reported as provider
\* "google" (stated as the claim and the tests have it)
C5_GoogleReportedAsGoogle ==
    \A seen \in ProviderSeen :
        (Contains(seen[1], "google") /\ "aws" \notin ProvidersIn(seen[1]))
            => seen[2] = "google"

\* C6: the resources reported hold exactly one entry for every category with a
\* keyword in the text and none for another category: no category twice, at
\* most six entries
C6_OneResourcePerCategory ==
    \A seen \in ResourcesSeen :
        LET types == {seen[2][k].Type : k \in 1..Len(seen[2])}
        IN /\ types = CategoriesIn(seen[1])
           /\ Len(seen[2]) = Cardinality(types)
           /\ Len(seen[2]) <= Len(CategoryTable)

\* C6 witness: extractResources was called on a text with one network keyword
\* and several database keywords and returned two entries
C6_Witness ==
    /\ Len(calls) = 1
    /\ calls[1].fn = "extractResources"
    /\ calls[1].arg = "create vpc with mysql database"
    /\ Len(calls[1].ret[1]) = 2

\* C7: the resources reported are in the table order compute, storage, network,
\* database, container, serverless (stated as the claim and the tests have it)
C7_ResourcesInTableOrder ==
    \A seen \in ResourcesSeen :
        \A k \in 1..(Len(seen[2]) - 1) :
            PlaceIn(CategoryTable, seen[2][k].Type) < PlaceIn(CategoryTable, seen[2][k + 1].Type)

\* C8: determineIntent answers create when a create word occurs, else modify
\* when a modify word occurs, else delete when a delete word occurs, else create
C8_IntentByPriority ==
    \A i \in CallsOf("determineIntent") :
        LET text == calls[i].arg
            intent == calls[i].ret[1]
            creates == Mentions(text, {"create", "setup", "build", "deploy", "provision"})
            modifies == Mentions(text, {"update", "modify", "change", "scale", "resize"})
            deletes == Mentions(text, {"delete", "remove", "destroy", "terminate"})
        IN /\ creates => intent = "create"
           /\ (~creates /\ modifies) => intent = "modify"
           /\ (~creates /\ ~modifies /\ deletes) => intent = "delete"
           /\ (~creates /\ ~modifies /\ ~deletes) => intent = "create"

\* C8 witness: determineIntent was called on a text with a delete word and a
\* create word and answered create
C8_Witness ==
    /\ Len(calls) = 1
    /\ calls[1].fn = "determineIntent"
    /\ calls[1].arg = "delete create vpc"
    /\ calls[1].ret = <<"create">>

\* C9: parsing the OriginalText of a parsed record again gives the same
\* provider, resources, intent and OriginalText (stated as the claim has it)
C9_ReparseIsIdempotent ==
    (/\ Len(calls) = 2
     /\ calls[1].fn = "Parse" /\ calls[2].fn = "Parse"
     /\ Returned(1)
     /\ calls[2].arg = calls[1].ret[1].OriginalText)
        => /\ Returned(2)
           /\ calls[2].ret[1].OriginalText = calls[1].ret[1].OriginalText
           /\ calls[2].ret[1].CloudProvider = calls[1].ret[1].CloudProvider
           /\ calls[2].ret[1].Resources = calls[1].ret[1].Resources
           /\ calls[2].ret[1].Intent = calls[1].ret[1].Intent

\* C10: two calls of Parse with the same text return equal records, and the
\* engine's tables are left as NewEngine built them (stated as the claim has it)
C10_ParseIsDeterministic ==
    /\ engine = NewEngine
    /\ \A i, j \in CallsOf("Parse") :
          calls[i].arg = calls[j].arg => calls[i].ret = calls[j].ret

(***************************************************************************)
(* Properties of the requirement extractors (SpecRequirements).            *)
(***************************************************************************)
RECURSIVE JoinGroups(_, _)
\* the groups of a match from the k-th element on, separated by single spaces
JoinGroups(match, k) ==
    IF k > Len(match) THEN ""
    ELSE match[k] \o (IF k < Len(match) THEN " " ELSE "") \o JoinGroups(match, k + 1)

\* "Specification: <number> <unit> <noun>" or "Specification: <number> <noun>"
\* for every match of the four patterns, in pattern order
SpecificationEntries(text) ==
    LET matches == AllMatches(numericPatterns, text)
    IN [k \in 1..Len(matches) |-> "Specification: " \o JoinGroups(matches[k], 2)]

\* the keyword lists of extractRequirements, each with its tag
CategoryKeywords ==
    << <<"Security: ", "secure">>, <<"Security: ", "security">>, <<"Security: ", "encrypted">>,
       <<"Security: ", "ssl">>, <<"Security: ", "tls">>, <<"Security: ", "https">>,
       <<"Security: ", "private">>, <<"Security: ", "public">>, <<"Security: ", "firewall">>,
       <<"Security: ", "access control">>,
       <<"Scalability: ", "scalable">>, <<"Scalability: ", "auto scaling">>,
       <<"Scalability: ", "high availability">>, <<"Scalability: ", "redundant">>,
       <<"Scalability: ", "multi-az">>, <<"Scalability: ", "multi-region">>,
       <<"Scalability: ", "load balanced">>,
       <<"Performance: ", "fast">>, <<"Performance: ", "performance">>,
       <<"Performance: ", "optimized">>, <<"Performance: ", "cached">>,
       <<"Performance: ", "cdn">> >>

\* one "<Category>: <keyword>" for every keyword that is a substring of the text
KeywordEntries(text) ==
    LET found == SelectSeq(CategoryKeywords, LAMBDA kw : Contains(text, kw[2]))
    IN [k \in 1..Len(found) |-> found[k][1] \o found[k][2]]

\* C11: every call of extractNumericRequirements returns one "Specification: ..."
\* entry for every match of each of the four numeric patterns, all matches kept
\* in pattern order ("3 instance" gives "Specification: 3 instance", "100 gb
\* storage" gives "Specification: 100 gb storage").
C11_OneSpecificationPerMatch ==
    \A i \in CallsOf("extractNumericRequirements") :
        /\ Returned(i)
        /\ calls[i].ret[1] = SpecificationEntries(calls[i].arg)

\* C12: every call of extractRequirements returns exactly one "<Category>:
\* <keyword>" entry for each listed keyword that is a substring of the text,
\* security first, then scalability, then performance, each in list order,
\* followed by all the Specification entries.
C12_KeywordEntriesThenSpecifications ==
    \A i \in CallsOf("extractRequirements") :
        /\ Returned(i)
        /\ calls[i].ret[1] = KeywordEntries(calls[i].arg) \o SpecificationEntries(calls[i].arg)

(***************************************************************************)
(* Properties of the resources and of the record (SpecAttributes, Spec).   *)
(***************************************************************************)
\* the resources a call returned and the text they were extracted from
ResourcesOf(i) ==
    IF calls[i].fn = "Parse" THEN calls[i].ret[1].Resources ELSE calls[i].ret[1]

TextOf(i) ==
    IF calls[i].fn = "Parse" THEN calls[i].ret[1].OriginalText ELSE calls[i].arg

\* the placeholder name of every category
NameTable ==
    [compute |-> "main_instance", storage |-> "main_storage", network |-> "main_network",
     database |-> "main_database", container |-> "main_cluster", serverless |-> "main_function"]

\* C24: the Name of every resource that Parse or extractResources returns is
\* the name of its category (compute main_instance, storage main_storage,
\* network main_network, database main_database, container main_cluster,
\* serverless main_function), whatever the text and the keyword that
\* triggered the category.
C24_NameByCategory ==
    \A i \in CallsOf("Parse") \cup CallsOf("extractResources") :
        Returned(i) =>
            \A k \in 1..Len(ResourcesOf(i)) :
                /\ ResourcesOf(i)[k].Type \in DOMAIN NameTable
                /\ ResourcesOf(i)[k].Name = NameTable[ResourcesOf(i)[k].Type]

\* Parse returned a compute resource triggered by "server", not by the first
\* keyword of the category, and a serverless resource
C24_Witness ==
    \E i \in CallsOf("Parse") :
        /\ Returned(i)
        /\ Contains(TextOf(i), "server") /\ ~Contains(TextOf(i), "vm")
        /\ \E k \in 1..Len(ResourcesOf(i)) : ResourcesOf(i)[k].Name = "main_instance"
        /\ \E k \in 1..Len(ResourcesOf(i)) : ResourcesOf(i)[k].Name = "main_function"

\* the attributes of the categories that have some: attribute and the words
\* that bring it
AttributeTable ==
    [compute  |-> {<<"os:linux", {"linux", "ubuntu", "centos"}>>, <<"os:windows", {"windows"}>>},
     network  |-> {<<"access:public", {"public"}>>, <<"access:private", {"private"}>>},
     database |-> {<<"engine:mysql", {"mysql"}>>, <<"engine:postgresql", {"postgres"}>>}]

\* C25: the attributes of a returned resource depend on its category and the
\* whole text only: compute has os:linux iff the text contains linux, ubuntu or
\* centos and os:windows iff it contains windows; network has access:public /
\* access:private iff the text contains public / private; database has
\* engine:mysql / engine:postgresql iff the text contains mysql / postgres;
\* storage, container and serverless resources have no attributes.
C25_AttributesByCategoryAndText ==
    \A i \in CallsOf("Parse") \cup CallsOf("extractResources") :
        Returned(i) =>
            \A k \in 1..Len(ResourcesOf(i)) :
                LET resource == ResourcesOf(i)[k]
                    attributes == {resource.Attributes[n] : n \in 1..Len(resource.Attributes)}
                IN IF resource.Type \in DOMAIN AttributeTable
                   THEN /\ \A entry \in AttributeTable[resource.Type] :
                              entry[1] \in attributes <=> Mentions(TextOf(i), entry[2])
                        /\ attributes \subseteq {entry[1] : entry \in AttributeTable[resource.Type]}
                   ELSE resource.Attributes = <<>>

\* Parse returned a compute resource with both os:linux and os:windows
C25_Witness ==
    \E i \in CallsOf("Parse") :
        /\ Returned(i)
        /\ \E k \in 1..Len(ResourcesOf(i)) :
              ResourcesOf(i)[k].Attributes = <<"os:linux", "os:windows">>

\* the text without its leading and trailing white space, in lower case
IsNormalised(original, text) ==
    LET inked == {k \in 1..Len(text) : ~IsSpace(CharAt(text, k))}
    IN IF inked = {} THEN original = ""
       ELSE LET lo == CHOOSE k \in inked : \A j \in inked : k <= j
                hi == CHOOSE k \in inked : \A j \in inked : k >= j
            IN /\ Len(original) = hi - lo + 1
               /\ \A k \in 1..Len(original) :
                     CharAt(original, k) = LowerChar(CharAt(text, lo + k - 1))

DefaultScanner(i) == \A j \in 1..(i - 1) : calls[j].fn # "AddCustomRule"

\* the findings a Scan call returned
Findings(i) == calls[i].ret[1]

\* the contextual heuristics: rule, marker, companions
ContextualHeuristics ==
    << <<"SEC011", "aws_s3_bucket", {"server_side_encryption"}>>,
       <<"SEC012", "aws_s3_bucket", {"versioning"}>>,
       <<"SEC013", "aws_s3_bucket", {"mfa_delete"}>>,
       <<"SEC014", "aws_instance", {"security_groups", "vpc_security_group_ids"}>>,
       <<"SEC015", "aws_db_instance", {"storage_encrypted"}>> >>

\* the heuristic fires: the marker is in the document and no companion is
Omitted(config, heuristic) ==
    /\ Contains(config, heuristic[2])
    /\ \A companion \in heuristic[3] : ~Contains(config, companion)

\* the position of a rule in the scanner's catalog
CatalogIndex(id) == CHOOSE k \in 1..Len(scanner.rules) : scanner.rules[k].ID = id

\* the position of a contextual rule in the order SEC011 .. SEC015
HeuristicIndex(id) == CHOOSE k \in 1..Len(ContextualHeuristics) : ContextualHeuristics[k][1] = id

\* the custom rules registered so far, in the order of the calls
RegisteredRules ==
    LET registrations == SelectSeq(calls, LAMBDA c : c.fn = "AddCustomRule")
    IN [k \in 1..Len(registrations) |-> registrations[k].arg]

\* C13: a Scan on a default scanner returns, for every line i (from 1) of the
\* document that contains cidr_blocks = ["0.0.0.0/0"], a finding of rule SEC003
\* with severity CRITICAL and Line = i.
C13_OpenCidrFoundOnItsLine ==
    \A i \in CallsOf("Scan") :
        DefaultScanner(i) =>
            /\ Returned(i)
            /\ LET lines == SplitLines(calls[i].arg)
               IN \A n \in 1..Len(lines) :
                     Contains(lines[n], "cidr_blocks = [\"0.0.0.0/0\"]") =>
                        \E k \in 1..Len(Findings(i)) :
                            /\ Findings(i)[k].Rule = "SEC003"
                            /\ Findings(i)[k].Severity = "CRITICAL"
                            /\ Findings(i)[k].Line = n

\* a default scan found the open CIDR block on the second line of its document
C13_Witness ==
    \E i \in CallsOf("Scan") :
        /\ DefaultScanner(i) /\ Returned(i)
        /\ Len(SplitLines(calls[i].arg)) = 2
        /\ Contains(SplitLines(calls[i].arg)[2], "cidr_blocks = [\"0.0.0.0/0\"]")
        /\ \E k \in 1..Len(Findings(i)) : Findings(i)[k].Rule = "SEC003" /\ Findings(i)[k].Line = 2

\* C14: a Scan returns the contextual finding of a heuristic (Line 0, empty
\* Resource) exactly when the document contains the marker and none of its
\* companions, and then exactly once: SEC011/SEC012/SEC013 for aws_s3_bucket
\* without server_side_encryption/versioning/mfa_delete, SEC014 for aws_instance
\* without security_groups and vpc_security_group_ids, SEC015 for
\* aws_db_instance without storage_encrypted.
C14_ContextualFindingIffOmission ==
    \A i \in CallsOf("Scan") :
        Returned(i) =>
            \A h \in 1..Len(ContextualHeuristics) :
                LET found == {k \in 1..Len(Findings(i)) : Findings(i)[k].Rule = ContextualHeuristics[h][1]}
                IN /\ Cardinality(found) = IF Omitted(calls[i].arg, ContextualHeuristics[h]) THEN 1 ELSE 0
                   /\ \A k \in found : Findings(i)[k].Line = 0 /\ Findings(i)[k].Resource = ""

\* a scan of a document with an S3 bucket and an EC2 instance that names its
\* security groups: SEC011 is reported, SEC014 is not
C14_Witness ==
    \E i \in CallsOf("Scan") :
        /\ Returned(i)
        /\ Contains(calls[i].arg, "aws_instance") /\ Contains(calls[i].arg, "vpc_security_group_ids")
        /\ \E k \in 1..Len(Findings(i)) : Findings(i)[k].Rule = "SEC011"
        /\ \A k \in 1..Len(Findings(i)) : Findings(i)[k].Rule # "SEC014"

\* C15: a default Scan of the one-line document
\* resource "aws_s3_bucket" "data" { acl = "public-read" } returns a finding of
\* SEC001 with Line 1 and Resource "aws_s3_bucket.data", and the contextual
\* findings SEC011, SEC012 and SEC013, each with Line 0.
C15_PublicBucketScenario ==
    \A i \in CallsOf("Scan") :
        (DefaultScanner(i)
            /\ calls[i].arg = "resource \"aws_s3_bucket\" \"data\" { acl = \"public-read\" }") =>
            /\ Returned(i)
            /\ \E k \in 1..Len(Findings(i)) :
                  /\ Findings(i)[k].Rule = "SEC001"
                  /\ Findings(i)[k].Line = 1
                  /\ Findings(i)[k].Resource = "aws_s3_bucket.data"
            /\ \A id \in {"SEC011", "SEC012", "SEC013"} :
                  \E k \in 1..Len(Findings(i)) : Findings(i)[k].Rule = id /\ Findings(i)[k].Line = 0

\* the one-line document of the scenario was scanned by a default scanner
C15_Witness ==
    \E i \in CallsOf("Scan") :
        /\ DefaultScanner(i) /\ Returned(i)
        /\ calls[i].arg = "resource \"aws_s3_bucket\" \"data\" { acl = \"public-read\" }"

\* C16: in the sequence a Scan returns, every line finding (Line >= 1) comes
\* before every contextual finding (Line = 0); line findings are in
\* non-decreasing Line order; two findings of the same line are in the catalog
\* order of their rules; contextual findings are in the order SEC011 .. SEC015.
C16_FindingsOrdered ==
    \A i \in CallsOf("Scan") :
        Returned(i) =>
            \A a \in 1..Len(Findings(i)) : \A b \in (a + 1)..Len(Findings(i)) :
                LET first == Findings(i)[a]
                    second == Findings(i)[b]
                IN /\ first.Line = 0 => second.Line = 0
                   /\ (first.Line >= 1 /\ second.Line >= 1) => first.Line <= second.Line
                   /\ (first.Line >= 1 /\ second.Line = first.Line) =>
                         CatalogIndex(first.Rule) < CatalogIndex(second.Rule)
                   /\ (first.Line = 0 /\ second.Line = 0) =>
                         HeuristicIndex(first.Rule) < HeuristicIndex(second.Rule)

\* a scan returned two findings of line 1, then one of line 2, then two
\* contextual findings
C16_Witness ==
    \E i \in CallsOf("Scan") :
        /\ Returned(i)
        /\ \E a, b, c, d, f \in 1..Len(Findings(i)) :
              /\ a < b /\ b < c /\ c < d /\ d < f
              /\ Findings(i)[a].Line = 1 /\ Findings(i)[b].Line = 1
              /\ Findings(i)[c].Line = 2
              /\ Findings(i)[d].Line = 0 /\ Findings(i)[f].Line = 0

\* no default rule matches a line of the document and no heuristic fires
NothingToReport(config) ==
    /\ \A n \in 1..Len(SplitLines(config)) : \A r \in 1..Len(loadDefaultRules) :
          ~MatchString(loadDefaultRules[r].Pattern, SplitLines(config)[n])
    /\ \A h \in 1..Len(ContextualHeuristics) : ~Omitted(config, ContextualHeuristics[h])

\* C17: a Scan on a scanner as NewScanner built it never fails: it returns a
\* nil error for every document, and an empty sequence of findings for a
\* document in which no line rule matches and no contextual heuristic fires
\* (the empty document included).
C17_DefaultScanNeverFails ==
    \A i \in CallsOf("Scan") :
        DefaultScanner(i) =>
            /\ Returned(i)
            /\ calls[i].ret[2] = "nil"
            /\ NothingToReport(calls[i].arg) => Findings(i) = <<>>

\* a default scanner scanned a document that has text but nothing to report,
\* and returned no finding
C17_Witness ==
    \E i \in CallsOf("Scan") :
        /\ DefaultScanner(i)
        /\ calls[i].arg # ""
        /\ NothingToReport(calls[i].arg)
        /\ calls[i].ret = <<<<>>, "nil">>

\* C18: a custom rule whose Pattern is nil is rejected when AddCustomRule is
\* called and never enters the catalog, so every Scan completes without failure.
C18_MalformedRuleRejected ==
    /\ \A k \in 1..Len(scanner.rules) : ~scanner.rules[k].Pattern.nil
    /\ \A i \in CallsOf("Scan") : Returned(i)

\* the IDs of the default rules and of the custom rules
DefaultIDs == {loadDefaultRules[k].ID : k \in 1..Len(loadDefaultRules)}

CustomIDs == {rule.ID : rule \in CustomRules}

\* C19: after any sequence of AddCustomRule calls the catalog is the ten
\* default rules SEC001 .. SEC010 in their order followed by the custom rules
\* in the order they were added; a custom rule yields line findings only
\* (never Line = 0); on a line where a default and a custom rule match, the
\* default rule's finding comes first.
C19_CustomRulesAfterDefaults ==
    /\ scanner.rules = loadDefaultRules \o RegisteredRules
    /\ [k \in 1..10 |-> scanner.rules[k].ID] =
          <<"SEC001", "SEC002", "SEC003", "SEC004", "SEC005",
            "SEC006", "SEC007", "SEC008", "SEC009", "SEC010">>
    /\ \A i \in CallsOf("Scan") :
          Returned(i) =>
             \A a \in 1..Len(Findings(i)) :
                Findings(i)[a].Rule \in CustomIDs =>
                   /\ Findings(i)[a].Line >= 1
                   /\ \A b \in 1..Len(Findings(i)) :
                         (Findings(i)[b].Rule \in DefaultIDs
                             /\ Findings(i)[b].Line = Findings(i)[a].Line) => b < a

\* two custom rules were registered, CUS002 before CUS001, and a scan returned
\* findings of a default rule and of both custom rules for the same line
C19_Witness ==
    /\ Len(RegisteredRules) = 2
    /\ RegisteredRules[1].ID = "CUS002"
    /\ \E i \in CallsOf("Scan") :
          /\ Returned(i)
          /\ \E a, b, c \in 1..Len(Findings(i)) :
                /\ a < b /\ b < c
                /\ Findings(i)[a].Rule \in DefaultIDs
                /\ Findings(i)[b].Rule = "CUS002"
                /\ Findings(i)[c].Rule = "CUS001"
                /\ Findings(i)[a].Line = Findings(i)[b].Line
                /\ Findings(i)[b].Line = Findings(i)[c].Line

\* C22: in the line-rule phase a Scan returns exactly one finding for every
\* pair (line, rule) whose pattern matches the line and no other line finding:
\* k rules matching a line give k findings, a pattern on n lines gives n
\* findings; every finding has the severity, message and remediation of its
\* rule, and no severity is filtered out.
C22_OneFindingPerLineAndRule ==
    \A i \in CallsOf("Scan") :
        Returned(i) =>
            LET lines == SplitLines(calls[i].arg)
                found(n, rule) == {k \in 1..Len(Findings(i)) :
                                      Findings(i)[k].Line = n /\ Findings(i)[k].Rule = rule.ID}
            IN /\ \A n \in 1..Len(lines) : \A r \in 1..Len(scanner.rules) :
                     /\ Cardinality(found(n, scanner.rules[r])) =
                           IF MatchString(scanner.rules[r].Pattern, lines[n]) THEN 1 ELSE 0
                     /\ \A k \in found(n, scanner.rules[r]) :
                           /\ Findings(i)[k].Severity = scanner.rules[r].Severity
                           /\ Findings(i)[k].Message = scanner.rules[r].Message
                           /\ Findings(i)[k].Remediation = scanner.rules[r].Remediation
               /\ \A k \in 1..Len(Findings(i)) :
                     Findings(i)[k].Line >= 1 =>
                        /\ Findings(i)[k].Line <= Len(lines)
                        /\ \E r \in 1..Len(scanner.rules) : scanner.rules[r].ID = Findings(i)[k].Rule

\* a scan returned line findings of all four severities, three of them for the
\* same line
C22_Witness ==
    \E i \in CallsOf("Scan") :
        /\ Returned(i)
        /\ \A severity \in {"LOW", "MEDIUM", "HIGH", "CRITICAL"} :
              \E k \in 1..Len(Findings(i)) :
                  Findings(i)[k].Line >= 1 /\ Findings(i)[k].Severity = severity
        /\ \E a, b, c \in 1..Len(Findings(i)) :
              /\ a < b /\ b < c
              /\ Findings(i)[a].Line = 1 /\ Findings(i)[b].Line = 1 /\ Findings(i)[c].Line = 1

\* the resource declarations of the documents: type and name
Declarations ==
    {<<"aws_s3_bucket", "data">>, <<"aws_instance", "web">>, <<"aws_instance", "app">>,
     <<"aws_db_instance", "db">>}

\* the declarations resource "<type>" "<name>" that a line holds
DeclaredOn(line) ==
    {d \in Declarations : Contains(line, "resource \"" \o d[1] \o "\" \"" \o d[2] \o "\"")}

\* C23: the Resource of a line finding is "<type>.<name>" of the resource
\* "<type>" "<name>" declaration on the line that matched, and "" when that
\* line holds no declaration, also inside a block declared on an earlier line;
\* the Resource of a contextual finding is always "".
C23_ResourceFromMatchedLine ==
    \A i \in CallsOf("Scan") :
        Returned(i) =>
            \A k \in 1..Len(Findings(i)) :
                LET finding == Findings(i)[k]
                IN IF finding.Line = 0 THEN finding.Resource = ""
                   ELSE LET declared == DeclaredOn(SplitLines(calls[i].arg)[finding.Line])
                        IN /\ declared = {} => finding.Resource = ""
                           /\ \A d \in declared : finding.Resource = d[1] \o "." \o d[2]

\* a scan returned a finding with a Resource for a declaration on line 1, a
\* finding without Resource for line 2 inside that block, and a contextual one
C23_Witness ==
    \E i \in CallsOf("Scan") :
        /\ Returned(i)
        /\ \E a, b, c \in 1..Len(Findings(i)) :
              /\ Findings(i)[a].Line = 1 /\ Findings(i)[a].Resource = "aws_s3_bucket.data"
              /\ Findings(i)[b].Line = 2 /\ Findings(i)[b].Resource = ""
              /\ Findings(i)[c].Line = 0 /\ Findings(i)[c].Resource = ""

(***************************************************************************)
(* Properties of concurrent calls (SpecConcurrent).                        *)
(***************************************************************************)
\* C20: with no AddCustomRule call in progress, Scan calls on one Scanner and
\* Parse calls on one Engine interleave arbitrarily and each call that
\* completes has exactly a result it has when run alone; the calls leave the
\* engine's tables and the scanner's catalog as they were.
C20_InterleavedCallsAsAlone ==
    /\ engine = NewEngine
    /\ scanner = NewScanner
    /\ \A t \in 1..MaxThreads :
          threads[t].pc = "done" =>
             LET result == IF threads[t].panicked THEN <<>> ELSE threads[t].ret
             IN /\ threads[t].op = "Scan" => result = Scan(scanner, document)
                /\ threads[t].op = "Parse" => result \in Parse(engine, input)

\* a Scan call that returned several findings and a Parse call that returned
\* two resources ran side by side, both to completion
C20_Witness ==
    /\ threads[1].pc = "done" /\ threads[2].pc = "done"
    /\ threads[1].op = "Scan" /\ threads[2].op = "Parse"
    /\ ~threads[1].panicked /\ ~threads[2].panicked
    /\ Len(threads[1].ret[1]) >= 2
    /\ Len(threads[2].ret[1].Resources) = 2

LineFindings(issues) == SelectSeq(issues, LAMBDA issue : issue.Line >= 1)

\* C27: a Scan that overlaps an AddCustomRule on the same Scanner is atomic
\* with respect to the catalog: it completes, and its line findings are those
\* of the catalog before the append or those of the catalog after it, applied
\* to all the lines.
C27_OverlappingScanSeesOneCatalog ==
    \A t \in 1..MaxThreads :
        (threads[t].op = "Scan" /\ threads[t].pc = "done") =>
            /\ ~threads[t].panicked
            /\ LineFindings(threads[t].ret[1]) \in
                  {LineFindings(Scan(NewScanner, document)[1]),
                   LineFindings(Scan(AddCustomRule(NewScanner, OverlapRule), document)[1])}

(***************************************************************************)
(* Properties of the web handler (SpecGenerate).                           *)
(***************************************************************************)
\* the stages of handleGenerate in the order of the code
StageOrder == <<"ShouldBindJSON", "Parse", "GenerateConfig", "Validate", "Scan", "EstimateCost">>

\* the call at i is the response
IsResponse(i) == calls[i].fn = "JSON"

\* the body of the response at i
Body(i) == calls[i].ret[1]

\* C28: handleGenerate runs bind, parse, generate, validate, scan and cost
\* estimate in that order; the first of the first five stages that fails is
\* followed at once by the last thing the handler does, a response with
\* Success false, Error set and Configuration empty, 400 for the bind and 500
\* for the others; a response with Success true carries the validated
\* configuration and comes only after parse, generate, validate and scan
\* succeeded; and once the five stages succeeded the response is a success
\* whatever the cost estimate returned and whatever the severities found.
C28_StagesInOrderFirstFailureAnswers ==
    /\ \A i \in 1..Len(calls) :
          IF IsResponse(i) THEN i = Len(calls)
          ELSE i <= Len(StageOrder) /\ calls[i].fn = StageOrder[i]
    /\ \A i \in 1..Len(calls) :
          (i <= 5 /\ ~IsResponse(i) /\ Failed(i)) =>
              /\ Len(calls) = i + 1
              /\ IsResponse(i + 1)
              /\ calls[i + 1].arg = IF i = 1 THEN 400 ELSE 500
              /\ ~Body(i + 1).Success
              /\ Body(i + 1).Error # ""
              /\ Body(i + 1).Configuration = ""
    /\ \A i \in 1..Len(calls) :
          (IsResponse(i) /\ Body(i).Success) =>
              /\ i = 7
              /\ \A j \in 1..5 : ~Failed(j)
              /\ calls[i].arg = 200
              /\ Body(i).Configuration = calls[4].ret[1]
              /\ Body(i).Issues = calls[5].ret[1]
    /\ (Len(calls) >= 6 /\ calls[6].fn = "EstimateCost") =>
          /\ Len(calls) = 7
          /\ IsResponse(7)
          /\ Body(7).Success
          /\ Body(7).Error = ""

(***************************************************************************)
(* Properties of the command generate (SpecCommand).                       *)
(***************************************************************************)
\* the calls that put the configuration out: a print, or a write that
\* succeeded
Outputs ==
    {i \in 1..Len(calls) :
        \/ calls[i].fn = "Println"
        \/ calls[i].fn = "WriteFile" /\ calls[i].ret = <<"nil">>}

\* the configuration the call at i put out
OutputOf(i) == IF calls[i].fn = "Println" THEN calls[i].arg ELSE calls[i].arg[2]

\* the reads of the setting key that gave value
Reads(key, value) ==
    {i \in CallsOf("GetBool") : calls[i].arg = key /\ calls[i].ret = <<value>>}

\* some finding is HIGH or CRITICAL
SomeHighOrCritical(issues) ==
    \E k \in 1..Len(issues) : issues[k].Severity \in {"HIGH", "CRITICAL"}

\* C29: the command generate writes or prints the configuration only after
\* Parse, GenerateConfig and Validate succeeded, in that order, and, when
\* security.scan_enabled was read as set, after the scan; what it puts out is
\* the validated configuration; when security.fail_on_high was read as set
\* and the scan has a HIGH or CRITICAL finding the command has returned an
\* error and put out nothing; and hasHighSeverityIssues is true exactly for
\* a list with a HIGH or CRITICAL finding.
C29_OutputAfterStagesFailOnHigh ==
    /\ \A i \in Outputs :
          /\ i > 4
          /\ calls[1].fn = "Parse" /\ ~Failed(1)
          /\ calls[2].fn = "GenerateConfig" /\ ~Failed(2)
          /\ calls[3].fn = "Validate" /\ ~Failed(3)
          /\ calls[4].fn = "GetBool" /\ calls[4].arg = "security.scan_enabled"
          /\ calls[4].ret = <<TRUE>> => (i > 5 /\ calls[5].fn = "Scan" /\ ~Failed(5))
          /\ OutputOf(i) = calls[3].ret[1]
    /\ \A i \in Reads("security.fail_on_high", TRUE), j \in CallsOf("Scan") :
          (Returned(j) /\ SomeHighOrCritical(calls[j].ret[1])) =>
              /\ Outputs = {}
              /\ calls[Len(calls)].fn = "return"
              /\ calls[Len(calls)].ret # <<"nil">>
    /\ \A i \in CallsOf("hasHighSeverityIssues") :
          calls[i].ret[1] = SomeHighOrCritical(calls[i].arg)

\* fail_on_high is set and the scan found a CRITICAL finding and no HIGH one:
\* the command has returned an error without output
C29_Witness ==
    /\ Reads("security.fail_on_high", TRUE) # {}
    /\ \E i \in CallsOf("hasHighSeverityIssues") :
          /\ calls[i].ret = <<TRUE>>
          /\ \A k \in 1..Len(calls[i].arg) : calls[i].arg[k].Severity # "HIGH"
    /\ Exited
    /\ Outputs = {}

(***************************************************************************)
(* Properties of cleanResponse (SpecClean).                                *)
(***************************************************************************)
\* a line that starts with the fence
IsFenceLine(line) == HasPrefixAt(line, 1, Fence)

\* the lines of content inside a code block: those that are not fence lines
\* and have an odd number of fence lines before them, in order
Selection(content) ==
    LET lines == SplitLines(content)
        inside(k) == /\ ~IsFenceLine(lines[k])
                     /\ Cardinality({j \in 1..(k - 1) : IsFenceLine(lines[j])}) % 2 = 1
        kept == SelectSeq([k \in 1..Len(lines) |-> k], inside)
    IN [n \in 1..Len(kept) |-> lines[kept[n]]]

====
